---- MODULE Spec2Model ----
(***************************************************************************)
(* A model of util/cythonpp.py, the preprocessor that turns one .ppyx file *)
(* into one C file: it enumerates the configurations of the file's         *)
(* #if/#ifdef conditions, preprocesses the file once per configuration,    *)
(* compiles every variant with Cython and merges the outputs back under    *)
(* #if/#else/#endif.                                                       *)
(*                                                                         *)
(* A physical line of the file is a record [k, p]: k is the kind of the    *)
(* line ("if", "ifdef", "else", "endif" for the lines match_condition      *)
(* accepts, "text" for every other line) and p its parameter or its text.  *)
(* A Condition is the pair <<name, polarity>>, a condition stack and a     *)
(* configuration are tuples of Conditions, a Tag is a set of Conditions    *)
(* and a TagList a tuple of Tags, as in the code.                          *)
(***************************************************************************)
EXTENDS Integers, Sequences, FiniteSets, TLC

\* Longest file the scan of get_conditions reads.
MaxCfgLen == 7
\* Longest file preprocess_filename reads.
MaxPreLen == 5
\* Longest TagList simplify_tags is called with.
MaxTags == 4
\* Most tagged lines produce_preprocessor is given.
MaxEmit == 4
\* Most lines of a stream given to expand_to_match, and the last source
\* line number they carry.
MaxStreamLen == 2
MaxSourceLine == 2
\* Most lines of a file given to process_filename.
MaxPipeLen == 5
\* Most tokens of a text given to expand_definitions.
MaxTokens == 2
\* Longest file with #define lines preprocess_filename reads.
MaxRefLen == 4
\* Most lines of an output given to merge.
MaxMergeLen == 2
\* Longest file preprocess_filename reads under a configuration.
MaxMirrorLen == 4
\* Longest file process_filename preprocesses pass by pass.
MaxStageLen == 4

VARIABLES
  src,              \* the lines of the .ppyx file
  pc,               \* where the run is
  linecount,        \* lines read by the running scan
  condition_stack,  \* get_conditions: the open directives
  conditions,       \* get_conditions: the stacks seen at non-directive lines
  configurations,   \* get_configurations: its result
  config,           \* preprocess_filename: the configuration, or None
  including_section,\* preprocess_filename: the truth of the open directives
  result,           \* preprocess_filename: the lines emitted
  tags_in,          \* simplify_tags: the TagList it was called with
  tags,             \* simplify_tags: the TagList, rewritten in place
  merged,           \* produce_preprocessor: the tagged lines it iterates
  state,            \* produce_preprocessor: the TagList of the open block
  output,           \* produce_preprocessor: the lines yielded
  yielded_at,       \* for each line yielded, the merged line being handled
  preprocessed,     \* expand_to_match: the lines left of each stream
  cfg2newlines,     \* expand_to_match: the aligned stream of each key
  reference_pyx,    \* process_filename: the aligned lines of the None pass
  todo,             \* process_filename: the configurations still to compile
  value,            \* process_filename: the text of the current variant
  sources,          \* process_filename: the tagged outputs collected
  cache,            \* run_cython: digest -> postprocessed output
  compiled,         \* the digests the external compiler was run on, in order
  pyx_file,         \* the content of the sibling .pyx path
  output_file,      \* the content of the merged output path
  newcode,          \* expand_definitions: the text, rewritten by its loop
  macros,           \* the definitions: macro name -> [lines, params]
  substitutions,    \* expand_definitions: iterations of its loop so far
  current_name      \* preprocess_filename: the macro a define is continuing

scanVars == <<condition_stack, conditions, configurations>>
preVars == <<config, including_section, result>>
tagVars == <<tags_in, tags>>
emitVars == <<merged, state, output, yielded_at>>
alignVars == <<preprocessed, cfg2newlines>>
pipeVars ==
  <<reference_pyx, todo, value, sources, cache, compiled, pyx_file,
    output_file>>

macroVars == <<newcode, macros, substitutions, current_name>>

vars ==
  <<src, pc, linecount, scanVars, preVars, tagVars, emitVars, alignVars,
    pipeVars, macroVars>>

\* No configuration: the reference mode of preprocess_filename.  A value
\* no tuple of Conditions of a file equals.
None == << <<"None", TRUE>> >>

-----------------------------------------------------------------------------
(* Lines *)

IfLine(p) == [k |-> "if", p |-> p]
IfdefLine(p) == [k |-> "ifdef", p |-> p]
ElseLine == [k |-> "else", p |-> ""]
EndifLine == [k |-> "endif", p |-> ""]
TextLine(t) == [k |-> "text", p |-> t]

\* match_condition: the line is a conditional directive.
match_condition(line) == line.k \in {"if", "ifdef", "else", "endif"}

\* The parameter of an #if / #ifdef line as a condition name:
\* "#ifdef NAME" is "#if defined(NAME)".
parameter_of(line) ==
  IF line.k = "ifdef" THEN "defined(" \o line.p \o ")" ELSE line.p

-----------------------------------------------------------------------------
(* Python's order on strings, Conditions and tuples of Conditions *)

\* The condition names of the model, in Python's string order.
NameOrder == <<"A", "B", "X", "Y", "defined(F)">>

name_rank(n) == CHOOSE i \in 1..Len(NameOrder) : NameOrder[i] = n

\* (name, flag) < (name', flag'), with False < True.
cond_lt(c, d) ==
  \/ name_rank(c[1]) < name_rank(d[1])
  \/ c[1] = d[1] /\ c[2] = FALSE /\ d[2] = TRUE

RECURSIVE tuple_lt(_, _)
tuple_lt(s, t) ==
  IF s = <<>> THEN t # <<>>
  ELSE IF t = <<>> THEN FALSE
  ELSE IF Head(s) = Head(t) THEN tuple_lt(Tail(s), Tail(t))
  ELSE cond_lt(Head(s), Head(t))

\* sorted() of a set of tuples of Conditions.
RECURSIVE sorted_tuples(_)
sorted_tuples(S) ==
  IF S = {} THEN <<>>
  ELSE LET m == CHOOSE m \in S : \A t \in S \ {m} : tuple_lt(m, t)
       IN  <<m>> \o sorted_tuples(S \ {m})

RECURSIVE insert_cond(_, _)
insert_cond(c, s) ==
  IF s = <<>> THEN <<c>>
  ELSE IF cond_lt(Head(s), c) THEN <<Head(s)>> \o insert_cond(c, Tail(s))
  ELSE <<c>> \o s

\* sorted() of a tuple of Conditions; a Condition held twice stays twice.
RECURSIVE sorted_conds(_)
sorted_conds(s) ==
  IF s = <<>> THEN <<>> ELSE insert_cond(Head(s), sorted_conds(Tail(s)))

Range(s) == {s[i] : i \in 1..Len(s)}

-----------------------------------------------------------------------------
(* get_conditions *)

\* One line of get_conditions: the stack, the set of recorded stacks and
\* the error raised, "" when none.
gc_line(stack, conds, line) ==
  IF match_condition(line) THEN
    IF line.k \in {"if", "ifdef"} THEN
      [stack |-> Append(stack, <<parameter_of(line), TRUE>>),
       conditions |-> conds, error |-> ""]
    ELSE IF line.k = "else" THEN
      IF stack = <<>> THEN
        [stack |-> stack, conditions |-> conds, error |-> "SyntaxError"]
      ELSE LET last == stack[Len(stack)]
           IN  IF last[2] # TRUE THEN
                 \* assert true is True
                 [stack |-> SubSeq(stack, 1, Len(stack) - 1),
                  conditions |-> conds, error |-> "AssertionError"]
               ELSE
                 [stack |-> Append(SubSeq(stack, 1, Len(stack) - 1),
                                   <<last[1], ~last[2]>>),
                  conditions |-> conds, error |-> ""]
    ELSE \* endif
      IF stack = <<>> THEN
        [stack |-> stack, conditions |-> conds, error |-> "SyntaxError"]
      ELSE
        [stack |-> SubSeq(stack, 1, Len(stack) - 1),
         conditions |-> conds, error |-> ""]
  ELSE
    [stack |-> stack, conditions |-> conds \cup {stack}, error |-> ""]

-----------------------------------------------------------------------------
(* get_configurations *)

RECURSIVE flat_tuple(_)
flat_tuple(x) == IF x = <<>> THEN <<>> ELSE Head(x) \o flat_tuple(Tail(x))

\* product(items, repeat=n): every n-tuple over items.
product(items, n) == [1..n -> items]

\* get_selections with repeat=1 for repeat=len(items): single stacks only.
get_selections_single(items) ==
  {flat_tuple(sorted_tuples(Range(x))) : x \in product(items, 1)}

get_selections(items) ==
  {flat_tuple(sorted_tuples(Range(x))) : x \in product(items, Cardinality(items))}

is_impossible(configuration) ==
  \E i, j \in 1..Len(configuration) :
    /\ configuration[i][1] = configuration[j][1]
    /\ configuration[i][2] # configuration[j][2]

\* The candidates get_configurations keeps (its list "configurations").
possible_selections(conds) ==
  {c \in get_selections(conds) : ~is_impossible(c)}

\* allconds: the names of the candidates kept.
allconds_of(conds) ==
  UNION {{c[i][1] : i \in 1..Len(c)} : c \in possible_selections(conds)}

\* add_missing defaulting the missing names to True.
RECURSIVE add_missing_true(_, _)
add_missing_true(configuration, missing) ==
  IF missing = {} THEN configuration
  ELSE LET cond == CHOOSE n \in missing : TRUE
       IN  add_missing_true(Append(configuration, <<cond, TRUE>>),
                            missing \ {cond})

RECURSIVE add_missing(_, _)
add_missing(configuration, missing) ==
  IF missing = {} THEN configuration
  ELSE LET cond == CHOOSE n \in missing : TRUE
       IN  add_missing(Append(configuration, <<cond, FALSE>>), missing \ {cond})

get_configurations_of(conds) ==
  LET allconds == allconds_of(conds)
  IN  {sorted_conds(add_missing(c, allconds \ {c[i][1] : i \in 1..Len(c)})) :
         c \in possible_selections(conds)}

-----------------------------------------------------------------------------
(* expand_definitions.  A text is the sequence of its characters; a macro  *)
(* name and a parameter name are texts; definitions maps each name to      *)
(* [lines, params], params being empty for a macro defined without any.    *)

\* body(local), local being computed once, as a local variable of the code
\* is.
bind(local, body(_)) == CHOOSE r \in {body(v) : v \in {local}} : TRUE

\* The characters of the texts below that \w matches.
WordChars == {"A", "B", "F", "G", "x", "y", "w", "1", "2"}

\* Those characters in the order of their code points.
CharOrder == <<"1", "2", "A", "B", "F", "G", "w", "x", "y">>

char_rank(c) == CHOOSE i \in 1..Len(CharOrder) : CharOrder[i] = c

\* str < str
RECURSIVE str_lt(_, _)
str_lt(s, t) ==
  IF s = <<>> THEN t # <<>>
  ELSE IF t = <<>> THEN FALSE
  ELSE IF Head(s) = Head(t) THEN str_lt(Tail(s), Tail(t))
  ELSE char_rank(Head(s)) < char_rank(Head(t))

\* Line 456: keys.sort(key=lambda x: (-len(x), x))
RECURSIVE sorted_keys(_)
sorted_keys(names) ==
  IF names = {} THEN <<>>
  ELSE LET k == CHOOSE k \in names :
                  \A n \in names \ {k} :
                    Len(k) > Len(n) \/ (Len(k) = Len(n) /\ str_lt(k, n))
       IN  <<k>> \o sorted_keys(names \ {k})

\* code[a:b] holds the text t at position a.
text_at(code, a, t) ==
  a + Len(t) - 1 <= Len(code) /\ SubSeq(code, a, a + Len(t) - 1) = t

\* The last alternative of the third group, [^w]: any character but "w".
boundary_after(code, r) == r <= Len(code) /\ code[r] # "w"

\* Length of what alternative a of (^|##|[^\w]) matches at p, -1 for none.
group1(code, p, a) ==
  IF a = 1 THEN (IF p = 1 THEN 0 ELSE -1)
  ELSE IF a = 2 THEN (IF text_at(code, p, <<"#", "#">>) THEN 2 ELSE -1)
  ELSE (IF p <= Len(code) /\ code[p] \notin WordChars THEN 1 ELSE -1)

\* Length of what alternative b of (\([^)]+\)|$|##|[^w]) matches at r, -1
\* for none.  $ matches at the end and before a newline that ends the text.
group3(code, r, b) ==
  IF b = 1 THEN
    IF r <= Len(code) /\ code[r] = "(" /\
       (\E e \in (r + 1)..Len(code) : code[e] = ")")
    THEN LET e == CHOOSE e \in (r + 1)..Len(code) :
                    code[e] = ")" /\ \A t \in (r + 1)..(e - 1) : code[t] # ")"
         IN  IF e >= r + 2 THEN e - r + 1 ELSE -1
    ELSE -1
  ELSE IF b = 2 THEN
    (IF r = Len(code) + 1 \/ (r = Len(code) /\ code[r] = "\n") THEN 0 ELSE -1)
  ELSE IF b = 3 THEN (IF text_at(code, r, <<"#", "#">>) THEN 2 ELSE -1)
  ELSE (IF boundary_after(code, r) THEN 1 ELSE -1)

\* re_macro.search(code): the matches at the leftmost position, and of
\* these the one the alternatives prefer; <<p, a, k, b>> is a match at p by
\* alternative a, key k and alternative b.
re_macro_matches(code, keys) ==
  {m \in (1..(Len(code) + 1)) \X (1..3) \X (1..Len(keys)) \X (1..4) :
     /\ group1(code, m[1], m[2]) >= 0
     /\ text_at(code, m[1] + group1(code, m[1], m[2]), keys[m[3]])
     /\ group3(code,
               m[1] + group1(code, m[1], m[2]) + Len(keys[m[3]]), m[4]) >= 0}

tuple4_le(m, n) ==
  \/ m[1] < n[1]
  \/ m[1] = n[1] /\ m[2] < n[2]
  \/ m[1] = n[1] /\ m[2] = n[2] /\ m[3] < n[3]
  \/ m[1] = n[1] /\ m[2] = n[2] /\ m[3] = n[3] /\ m[4] <= n[4]

\* The groups of the match of key at q that starts at p and whose third
\* group is n3 long: [start, group1, token, group3, end].
groups(code, p, q, key, n3) ==
  [start |-> p,
   group1 |-> SubSeq(code, p, q - 1),
   token |-> key,
   group3 |-> SubSeq(code, q + Len(key), q + Len(key) + n3 - 1),
   end |-> q + Len(key) + n3 - 1]

groups_of(code, keys, m) ==
  groups(code, m[1], m[1] + group1(code, m[1], m[2]), keys[m[3]],
         group3(code, m[1] + group1(code, m[1], m[2]) + Len(keys[m[3]]),
                m[4]))

first_match(ms) ==
  bind(ms, LAMBDA s : CHOOSE m \in s : \A n \in s : tuple4_le(m, n))

\* The groups of the first match.
re_macro_search(code, keys) ==
  bind(first_match(re_macro_matches(code, keys)),
       LAMBDA m : groups_of(code, keys, m))

Whitespace == {" ", "\n"}

\* str.strip()
RECURSIVE lstrip(_)
lstrip(s) == IF s # <<>> /\ Head(s) \in Whitespace THEN lstrip(Tail(s)) ELSE s

RECURSIVE rstrip(_)
rstrip(s) ==
  IF s # <<>> /\ s[Len(s)] \in Whitespace
  THEN rstrip(SubSeq(s, 1, Len(s) - 1)) ELSE s

strip(s) == rstrip(lstrip(s))

\* x.split(',')
RECURSIVE split_comma(_)
split_comma(x) ==
  IF \E i \in 1..Len(x) : x[i] = ","
  THEN LET i == CHOOSE i \in 1..Len(x) :
                  x[i] = "," /\ \A j \in 1..(i - 1) : x[j] # ","
       IN  <<SubSeq(x, 1, i - 1)>> \o split_comma(SubSeq(x, i + 1, Len(x)))
  ELSE <<x>>

parse_parameter_values(x) ==
  LET parts == split_comma(SubSeq(x, 2, Len(x) - 1))
  IN  [i \in 1..Len(parts) |-> strip(parts[i])]

\* '\n'.join(lines)
RECURSIVE join_lines(_)
join_lines(lines) ==
  IF lines = <<>> THEN <<>>
  ELSE IF Len(lines) = 1 THEN lines[1]
  ELSE lines[1] \o <<"\n">> \o join_lines(Tail(lines))

\* Line 494: range(20000)
MaxSubstitutions == 20000

InvalidNumberOfArguments == "Invalid number of arguments for macro"
InfiniteRecursion == "Infinite recursion"
TooManySubstitutions == "Too many substitutions or internal error."

\* The definitions line 475-479 build from the parameters and the arguments;
\* a later parameter of the same name replaces an earlier one.
local_definitions(params, arguments) ==
  [key \in Range(params) |->
     LET i == CHOOSE i \in 1..Len(params) :
                params[i] = key /\ \A j \in (i + 1)..Len(params) : params[j] # key
     IN  [lines |-> <<arguments[i]>>, params |-> <<>>]]

\* repl of lines 462-492: [result, error], error "" when it returns.
\* expand is the expand_definitions line 480 calls.
repl(m, definitions, expand(_, _)) ==
  LET definition == definitions[m.token]
      params == definition.params
      g3 == m.group3
      prefix == IF m.group1 = <<"#", "#">> THEN <<>> ELSE m.group1
  IN  IF params # <<>> THEN
        LET with_list == g3 # <<>> /\ Head(g3) = "(" /\ g3[Len(g3)] = ")"
            arguments == IF with_list THEN parse_parameter_values(g3) ELSE <<>>
        IN  IF with_list /\ Len(params) = Len(arguments) THEN
              LET r == expand(join_lines(definition.lines),
                              local_definitions(params, arguments))
              IN  [result |-> prefix \o r.code, error |-> r.error]
            ELSE [result |-> <<>>, error |-> InvalidNumberOfArguments]
      ELSE [result |-> prefix \o join_lines(definition.lines) \o
                       (IF g3 = <<"#", "#">> THEN <<>> ELSE g3),
            error |-> ""]

\* The text with the match m replaced by what repl returned.
replaced(code, m, r) ==
  [code |-> SubSeq(code, 1, m.start - 1) \o r.result \o
            SubSeq(code, m.end + 1, Len(code)),
   count |-> 1, error |-> r.error]

replace_match(code, definitions, m, expand(_, _)) ==
  bind(repl(m, definitions, expand), LAMBDA r : replaced(code, m, r))

\* re_macro.subn(repl, code, count=1): [code, count, error].
subn(code, definitions, expand(_, _)) ==
  bind(sorted_keys(DOMAIN definitions), LAMBDA keys :
    bind(re_macro_matches(code, keys), LAMBDA ms :
      IF ms = {} THEN [code |-> code, count |-> 0, error |-> ""]
      ELSE bind(groups_of(code, keys, first_match(ms)), LAMBDA m :
             replace_match(code, definitions, m, expand))))

\* Lines 496-500 without the test of line 497: an unchanged text is
\* returned whatever count says.
iteration_result_unchecked(code, s) ==
  IF s.error # "" THEN [code |-> code, error |-> s.error, done |-> TRUE]
  ELSE [code |-> s.code, error |-> "", done |-> s.code = code]

\* Lines 496-500 after the substitution s: [code, error, done].
iteration_result(code, s) ==
  IF s.error # "" THEN [code |-> code, error |-> s.error, done |-> TRUE]
  ELSE IF s.code = code THEN
    [code |-> code,
     error |-> IF s.count > 0 THEN InfiniteRecursion ELSE "",
     done |-> TRUE]
  ELSE [code |-> s.code, error |-> "", done |-> FALSE]

\* One iteration of the loop of lines 494-501 on code.
expand_iteration_of(code, definitions, expand(_, _)) ==
  bind(subn(code, definitions, expand), LAMBDA s : iteration_result(code, s))

\* The definitions of line 479 have no parameters: the expand_definitions
\* of line 480 never reaches line 480 itself.
no_parameters(code, definitions) == [code |-> code, error |-> ""]

\* expand_definitions(code, definitions) as line 480 calls it, from the
\* iteration i of its loop on: [code, error], error "" when it returns code.
RECURSIVE expand_arguments_loop(_, _, _)
expand_arguments_loop(code, definitions, i) ==
  IF i = MaxSubstitutions THEN [code |-> code, error |-> TooManySubstitutions]
  ELSE bind(expand_iteration_of(code, definitions, no_parameters),
            LAMBDA n : IF n.done THEN [code |-> n.code, error |-> n.error]
                       ELSE expand_arguments_loop(n.code, definitions, i + 1))

expand_arguments(code, definitions) ==
  IF DOMAIN definitions = {} THEN [code |-> code, error |-> ""]
  ELSE expand_arguments_loop(code, definitions, 0)

\* expand_definitions(code, definitions) from the iteration i of its loop on.
RECURSIVE expand_loop(_, _, _)
expand_loop(code, definitions, i) ==
  IF i = MaxSubstitutions THEN [code |-> code, error |-> TooManySubstitutions]
  ELSE bind(expand_iteration_of(code, definitions, expand_arguments),
            LAMBDA n : IF n.done THEN [code |-> n.code, error |-> n.error]
                       ELSE expand_loop(n.code, definitions, i + 1))

\* expand_definitions(code, definitions): [code, error], error "" when it
\* returns code.
expand_definitions(code, definitions) ==
  IF DOMAIN definitions = {} THEN [code |-> code, error |-> ""]
  ELSE expand_loop(code, definitions, 0)

-----------------------------------------------------------------------------
(* The scan of get_configurations, line by line.  src holds the lines read *)
(* so far: the file is any sequence of at most MaxCfgLen lines.            *)

\* preprocess_filename is not running.
PreIdle == config = None /\ including_section = <<>> /\ result = <<>>

\* simplify_tags is not running.
TagIdle == tags_in = <<>> /\ tags = <<>>

\* produce_preprocessor is not running.
EmitIdle ==
  merged = <<>> /\ state = <<>> /\ output = <<>> /\ yielded_at = <<>>

\* expand_to_match is not running.
AlignIdle == preprocessed = <<>> /\ cfg2newlines = <<>>

\* What a destination path holds before process_filename runs.
Previous == <<"previous content">>

\* process_filename is not running.
PipeIdle ==
  /\ reference_pyx = <<>>
  /\ todo = <<>>
  /\ value = <<>>
  /\ sources = <<>>
  /\ cache = <<>>
  /\ compiled = <<>>
  /\ pyx_file = Previous
  /\ output_file = Previous

\* expand_definitions is not running and nothing is defined.
MacroIdle ==
  newcode = <<>> /\ macros = <<>> /\ substitutions = 0 /\ current_name = <<>>

CfgAlphabet ==
  {IfLine("X"), IfLine("Y"), ElseLine, EndifLine, TextLine("line")}

InitCfg ==
  /\ src = <<>>
  /\ pc = "get_conditions"
  /\ linecount = 0
  /\ condition_stack = <<>>
  /\ conditions = {}
  /\ configurations = {}
  /\ PreIdle
  /\ TagIdle
  /\ EmitIdle
  /\ AlignIdle
  /\ PipeIdle
  /\ MacroIdle

\* for line in open(filename): one more line.
get_conditions_line ==
  /\ pc = "get_conditions"
  /\ linecount < MaxCfgLen
  /\ \E line \in CfgAlphabet :
       LET r == gc_line(condition_stack, conditions, line)
       IN  /\ src' = Append(src, line)
           /\ linecount' = linecount + 1
           /\ condition_stack' = r.stack
           /\ conditions' = r.conditions
           /\ pc' = IF r.error = "" THEN "get_conditions"
                    ELSE IF r.error = "SyntaxError" THEN "exit"
                    ELSE "raise"
           /\ UNCHANGED <<configurations, preVars, tagVars, emitVars,
                 alignVars, pipeVars, macroVars>>

\* End of file: get_conditions returns and get_configurations finishes.
get_configurations ==
  /\ pc = "get_conditions"
  /\ configurations' = get_configurations_of(conditions)
  /\ pc' = "done"
  /\ UNCHANGED <<src, linecount, condition_stack, conditions, preVars,
                 tagVars, emitVars,
                 alignVars, pipeVars,
                 macroVars>>

NextCfg == get_conditions_line \/ get_configurations

SpecCfg == InitCfg /\ [][NextCfg]_vars

-----------------------------------------------------------------------------
(* get_conditions and get_configurations of a whole file *)

RECURSIVE gc_run(_, _)
\* get_conditions after the first i lines of s; an error ends the scan.
gc_run(s, i) ==
  IF i = 0 THEN [stack |-> <<>>, conditions |-> {}, error |-> ""]
  ELSE LET r == gc_run(s, i - 1)
       IN  IF r.error # "" THEN r ELSE gc_line(r.stack, r.conditions, s[i])

get_conditions(s) == gc_run(s, Len(s))

\* get_configurations(filename) returns.
accepted(s) == get_conditions(s).error = ""

\* Every file of at most n lines over the alphabet.
Files(alphabet, n) == UNION {[1..m -> alphabet] : m \in 0..n}

-----------------------------------------------------------------------------
(* preprocess_filename, for files that hold no #define: definitions stays  *)
(* empty and expand_definitions returns its line as it is.                 *)

\* The text of a physical line, without its newline.
text_of(line) ==
  IF line.k = "if" THEN "#if " \o line.p
  ELSE IF line.k = "ifdef" THEN "#ifdef " \o line.p
  ELSE IF line.k = "else" THEN "#else"
  ELSE IF line.k = "endif" THEN "#endif"
  ELSE line.p

\* Str_sourceline(source, sourceline)
Str_sourceline(source, sourceline) ==
  [text |-> source, sourceline |-> sourceline]

\* Config.is_condition_true(directive)
is_condition_true(cfg, line) == <<parameter_of(line), TRUE>> \in Range(cfg)

\* Line 168: the line is skipped when the last open directive is false.
skips(including) == including # <<>> /\ ~including[Len(including)]

\* One line of preprocess_filename; n is linecount after the increment.
pp_line(including, res, line, n, cfg) ==
  IF match_condition(line) /\ cfg # None THEN
    IF line.k = "else" THEN
      IF including = <<>> THEN
        [including |-> including, result |-> res, error |-> "SyntaxError"]
      ELSE
        [including |-> Append(SubSeq(including, 1, Len(including) - 1),
                              ~including[Len(including)]),
         result |-> res, error |-> ""]
    ELSE IF line.k = "endif" THEN
      IF including = <<>> THEN
        [including |-> including, result |-> res, error |-> "SyntaxError"]
      ELSE
        [including |-> SubSeq(including, 1, Len(including) - 1),
         result |-> res, error |-> ""]
    ELSE
      [including |-> Append(including, is_condition_true(cfg, line)),
       result |-> res, error |-> ""]
  ELSE
    IF skips(including) THEN
      [including |-> including, result |-> res, error |-> ""]
    ELSE
      [including |-> including,
       result |-> Append(res, Str_sourceline(text_of(line), n - 1)),
       error |-> ""]

RECURSIVE pp_run(_, _, _)
pp_run(s, i, cfg) ==
  IF i = 0 THEN [including |-> <<>>, result |-> <<>>, error |-> ""]
  ELSE LET r == pp_run(s, i - 1, cfg)
       IN  IF r.error # "" THEN r
           ELSE pp_line(r.including, r.result, s[i], i, cfg)

preprocess_filename(s, cfg) == pp_run(s, Len(s), cfg)

PreAlphabet ==
  {IfLine("A"), IfLine("B"), ElseLine, EndifLine, TextLine("line")}

\* The configurations preprocess_filename is run with: those of
\* get_configurations and None from process_filename, and the FakeConfig of
\* --ignore-cond, under which no condition is true (as under Config(())).
pre_configs(s) ==
  {<<>>} \cup
  (IF accepted(s) THEN get_configurations_of(get_conditions(s).conditions)
                         \cup {None}
   ELSE {})

InitPre ==
  /\ src \in Files(PreAlphabet, MaxPreLen)
  /\ config \in pre_configs(src)
  /\ pc = "preprocess"
  /\ linecount = 0
  /\ including_section = <<>>
  /\ result = <<>>
  /\ condition_stack = <<>>
  /\ conditions = {}
  /\ configurations = {}
  /\ TagIdle
  /\ EmitIdle
  /\ AlignIdle
  /\ PipeIdle
  /\ MacroIdle

\* for line in open(filename): the next line.
preprocess_line ==
  /\ pc = "preprocess"
  /\ linecount < Len(src)
  /\ LET r == pp_line(including_section, result, src[linecount + 1],
                      linecount + 1, config)
     IN  /\ linecount' = linecount + 1
         /\ including_section' = r.including
         /\ result' = r.result
         /\ pc' = IF r.error = "" THEN "preprocess" ELSE "exit"
  /\ UNCHANGED <<src, config, scanVars, tagVars, emitVars,
                 alignVars, pipeVars,
                 macroVars>>

\* return result
preprocess_return ==
  /\ pc = "preprocess"
  /\ linecount = Len(src)
  /\ pc' = "done"
  /\ UNCHANGED <<src, linecount, scanVars, preVars, tagVars, emitVars,
                 alignVars, pipeVars,
                 macroVars>>

NextPre == preprocess_line \/ preprocess_return

SpecPre == InitPre /\ [][NextPre]_vars

-----------------------------------------------------------------------------
(* simplify_tags: one action for each rewrite of the list and one for the  *)
(* return; every rewrite is followed by the recursive call on the list.    *)

reverted(item) == <<item[1], ~item[2]>>

\* list.remove(x): the list without its first element equal to x.
RECURSIVE list_remove(_, _)
list_remove(list, x) ==
  IF list = <<>> THEN <<>>
  ELSE IF Head(list) = x THEN Tail(list)
  ELSE <<Head(list)>> \o list_remove(Tail(list), x)

\* Lines 404-411: an item of tag1 whose reverse is in tag2, the two Tags
\* being equal without them.
combinable_items(tag1, tag2) ==
  {item \in tag1 : /\ reverted(item) \in tag2
                   /\ tag1 \ {item} = tag2 \ {reverted(item)}}

\* The pair of positions is rewritten by the loop of line 400.
rewritten(list, i, j) ==
  list[i] = list[j] \/ combinable_items(list[i], list[j]) # {}

\* combinations(tags, 2) in its order, up to the first pair rewritten.
first_pair(list) ==
  LET pairs == {p \in (1..Len(list)) \X (1..Len(list)) :
                  p[1] < p[2] /\ rewritten(list, p[1], p[2])}
  IN  CHOOSE p \in pairs :
        \A q \in pairs : p[1] < q[1] \/ (p[1] = q[1] /\ p[2] <= q[2])

has_empty(list) == \E i \in 1..Len(list) : list[i] = {}

has_pair(list) ==
  \E i, j \in 1..Len(list) : i < j /\ rewritten(list, i, j)

\* Lines 396-399.
drop_empty(list) == list_remove(list, {})

\* A line 402 that removes nothing.
keep_duplicate(list) == list

\* Lines 401-403.
drop_duplicate(list) == list_remove(list, list[first_pair(list)[1]])

\* Lines 404-415.
combine(list) ==
  LET p == first_pair(list)
      tag1 == list[p[1]]
      tag2 == list[p[2]]
      item == CHOOSE x \in combinable_items(tag1, tag2) : TRUE
  IN  Append(list_remove(list_remove(list, tag1), tag2), tag1 \ {item})

RECURSIVE simplify_tags(_)
simplify_tags(list) ==
  IF has_empty(list) THEN simplify_tags(drop_empty(list))
  ELSE IF ~has_pair(list) THEN list
  ELSE IF list[first_pair(list)[1]] = list[first_pair(list)[2]]
       THEN simplify_tags(drop_duplicate(list))
  ELSE simplify_tags(combine(list))

TagNames == {"A", "B"}

\* The internally consistent Tags over TagNames.
ConsistentTags ==
  {t \in SUBSET (TagNames \X BOOLEAN) :
     \A c \in t : reverted(c) \notin t}

InitTags ==
  /\ tags_in \in UNION {[1..n -> ConsistentTags] : n \in 0..MaxTags}
  /\ tags = tags_in
  /\ pc = "simplify_tags"
  /\ src = <<>>
  /\ linecount = 0
  /\ condition_stack = <<>>
  /\ conditions = {}
  /\ configurations = {}
  /\ PreIdle
  /\ EmitIdle
  /\ AlignIdle
  /\ PipeIdle
  /\ MacroIdle

simplify_drop_empty ==
  /\ pc = "simplify_tags"
  /\ has_empty(tags)
  /\ tags' = drop_empty(tags)
  /\ UNCHANGED <<src, pc, linecount, scanVars, preVars, tags_in, emitVars,
                 alignVars, pipeVars,
                 macroVars>>

simplify_drop_duplicate ==
  /\ pc = "simplify_tags"
  /\ ~has_empty(tags)
  /\ has_pair(tags)
  /\ tags[first_pair(tags)[1]] = tags[first_pair(tags)[2]]
  /\ tags' = drop_duplicate(tags)
  /\ UNCHANGED <<src, pc, linecount, scanVars, preVars, tags_in, emitVars,
                 alignVars, pipeVars,
                 macroVars>>

simplify_combine ==
  /\ pc = "simplify_tags"
  /\ ~has_empty(tags)
  /\ has_pair(tags)
  /\ tags[first_pair(tags)[1]] # tags[first_pair(tags)[2]]
  /\ tags' = combine(tags)
  /\ UNCHANGED <<src, pc, linecount, scanVars, preVars, tags_in, emitVars,
                 alignVars, pipeVars,
                 macroVars>>

\* return tags
simplify_return ==
  /\ pc = "simplify_tags"
  /\ ~has_empty(tags)
  /\ ~has_pair(tags)
  /\ pc' = "done"
  /\ UNCHANGED <<src, linecount, scanVars, preVars, tagVars, emitVars,
                 alignVars, pipeVars,
                 macroVars>>

NextTags ==
  \/ simplify_drop_empty
  \/ simplify_drop_duplicate
  \/ simplify_combine
  \/ simplify_return

SpecTags == InitTags /\ [][NextTags]_vars

\* simplify_tags is a chain of calls in one thread: once called it runs on.
SpecTagsFair == SpecTags /\ WF_vars(NextTags)

-----------------------------------------------------------------------------
(* simplify_tags on the TagLists of merge: every order of the complete     *)
(* configurations over the first names of AllNames, and every pair of Tags *)
(* over AllNames.                                                          *)

AllNames == <<"A", "B", "C">>

\* The 2^n complete configurations over the first n names, as Tags.
RECURSIVE complete_configurations(_)
complete_configurations(n) ==
  IF n = 0 THEN <<{}>>
  ELSE LET fewer == complete_configurations(n - 1)
       IN  [i \in 1..(2 * Len(fewer)) |->
              fewer[(i + 1) \div 2] \cup {<<AllNames[n], i % 2 = 1>>}]

\* Every order of a list.
orders(list) ==
  {[i \in 1..Len(list) |-> list[p[i]]] : p \in Permutations(1..Len(list))}

\* The internally consistent Tags over AllNames.
ConsistentTagsOfAll ==
  {t \in SUBSET (Range(AllNames) \X BOOLEAN) : \A c \in t : reverted(c) \notin t}

\* The orders of a list that leave its first element where it is.
orders_from_first(list) == {o \in orders(list) : o[1] = list[1]}

\* Over all the names the orders that start with one configuration are
\* enough to show what simplify_tags does.
InitAllTags ==
  /\ tags_in \in
       UNION {orders(complete_configurations(n)) :
                n \in 1..(Len(AllNames) - 1)}
       \cup orders_from_first(complete_configurations(Len(AllNames)))
       \cup [1..2 -> ConsistentTagsOfAll]
  /\ tags = tags_in
  /\ pc = "simplify_tags"
  /\ src = <<>>
  /\ linecount = 0
  /\ condition_stack = <<>>
  /\ conditions = {}
  /\ configurations = {}
  /\ PreIdle
  /\ EmitIdle
  /\ AlignIdle
  /\ PipeIdle
  /\ MacroIdle

SpecAllTags == InitAllTags /\ [][NextTags]_vars

-----------------------------------------------------------------------------
(* produce_preprocessor.  A merged line is [text, tags]; a line yielded is *)
(* [k, text], k telling the directives the generator adds ("if", "else",   *)
(* "endif") from the merged lines it passes on ("line").  The state None   *)
(* is the empty TagList: key is never an empty list (line 265).            *)

format_cond(cond) == IF cond[2] THEN cond[1] ELSE "!" \o cond[1]

\* sorted(tag)
RECURSIVE sorted_tag(_)
sorted_tag(tag) ==
  IF tag = {} THEN <<>>
  ELSE LET m == CHOOSE m \in tag : \A c \in tag \ {m} : cond_lt(m, c)
       IN  <<m>> \o sorted_tag(tag \ {m})

\* sep.join(strings)
RECURSIVE join(_, _)
join(sep, strings) ==
  IF strings = <<>> THEN ""
  ELSE IF Len(strings) = 1 THEN strings[1]
  ELSE strings[1] \o sep \o join(sep, Tail(strings))

format_tag(tag) ==
  LET st == sorted_tag(tag)
  IN  join(" && ", [i \in 1..Len(st) |-> format_cond(st[i])])

format_tags(list) ==
  join(" || ", [i \in 1..Len(list) |-> "(" \o format_tag(list[i]) \o ")"])

\* exact_reverse that never finds a reverse.
exact_reverse_never(tags1, tags2) == FALSE

exact_reverse(tags1, tags2) ==
  /\ tags1 # <<>>
  /\ tags2 # <<>>
  /\ Len(tags1) = 1 /\ Len(tags2) = 1
  /\ Cardinality(tags1[1]) = 1 /\ Cardinality(tags2[1]) = 1
  /\ LET tag1 == CHOOSE c \in tags1[1] : TRUE
         tag2 == CHOOSE c \in tags2[1] : TRUE
     IN  tag1[1] = tag2[1] /\ tag1[2] # tag2[2]

yield_else(st) == [k |-> "else", text |-> "#else /* " \o format_tags(st) \o " */"]
yield_endif(st) == [k |-> "endif", text |-> "#endif /* " \o format_tags(st) \o " */"]
yield_if(key) == [k |-> "if", text |-> "#if " \o format_tags(key)]
yield_line(line) == [k |-> "line", text |-> line.text]

\* One iteration of the loop of produce_preprocessor: what it yields and
\* the state it leaves.
produce_line(st, line) ==
  LET key == line.tags
  IN  IF key = st THEN [yields |-> <<yield_line(line)>>, state |-> st]
      ELSE
        [yields |->
           (IF exact_reverse(key, st) THEN <<yield_else(st)>>
            ELSE (IF st # <<>> THEN <<yield_endif(st)>> ELSE <<>>) \o
                 (IF key # <<>> THEN <<yield_if(key)>> ELSE <<>>))
           \o <<yield_line(line)>>,
         state |-> key]

\* Lines 279-280, after the loop.
produce_end(st) == IF st # <<>> THEN <<yield_endif(st)>> ELSE <<>>

RECURSIVE produce_run(_, _)
produce_run(lines, i) ==
  IF i = 0 THEN [yields |-> <<>>, state |-> <<>>]
  ELSE LET r == produce_run(lines, i - 1)
           n == produce_line(r.state, lines[i])
       IN  [yields |-> r.yields \o n.yields, state |-> n.state]

produce_preprocessor(lines) ==
  LET r == produce_run(lines, Len(lines))
  IN  r.yields \o produce_end(r.state)

Tagged(text, taglist) == [text |-> text, tags |-> taglist]

\* TagLists that simplify_tags returns for configurations over A and B.
EmitTagLists ==
  { <<>>,
    << {<<"A", TRUE>>} >>,
    << {<<"A", FALSE>>} >>,
    << {<<"B", TRUE>>} >>,
    << {<<"A", TRUE>>, <<"B", TRUE>>} >>,
    << {<<"A", FALSE>>, <<"B", TRUE>>}, {<<"A", TRUE>>} >> }

InitEmit ==
  /\ merged \in UNION {[1..n -> {Tagged("line", t) : t \in EmitTagLists}] :
                         n \in 0..MaxEmit}
  /\ state = <<>>
  /\ output = <<>>
  /\ yielded_at = <<>>
  /\ pc = "produce_preprocessor"
  /\ linecount = 0
  /\ src = <<>>
  /\ condition_stack = <<>>
  /\ conditions = {}
  /\ configurations = {}
  /\ PreIdle
  /\ TagIdle
  /\ AlignIdle
  /\ PipeIdle
  /\ MacroIdle

\* for line in iterable: the next line.
produce_next ==
  /\ pc = "produce_preprocessor"
  /\ linecount < Len(merged)
  /\ LET r == produce_line(state, merged[linecount + 1])
     IN  /\ output' = output \o r.yields
         /\ yielded_at' =
              yielded_at \o [i \in 1..Len(r.yields) |-> linecount + 1]
         /\ state' = r.state
  /\ linecount' = linecount + 1
  /\ UNCHANGED <<src, pc, merged, scanVars, preVars, tagVars,
                 alignVars, pipeVars,
                 macroVars>>

\* The iterable is exhausted.
produce_finish ==
  /\ pc = "produce_preprocessor"
  /\ linecount = Len(merged)
  /\ output' = output \o produce_end(state)
  /\ yielded_at' =
       yielded_at \o [i \in 1..Len(produce_end(state)) |-> linecount + 1]
  /\ pc' = "done"
  /\ UNCHANGED <<src, linecount, merged, state, scanVars, preVars, tagVars,
                 alignVars, pipeVars,
                 macroVars>>

NextEmit == produce_next \/ produce_finish

SpecEmit == InitEmit /\ [][NextEmit]_vars

-----------------------------------------------------------------------------
(* expand_to_match.  Its argument (the list named preprocessed by its     *)
(* caller) and cfg2newlines map each key (a configuration               *)
(* or None) to its list of lines.                                        *)

maxguard == 1073741824

\* The blank line '\n' that pads a stream: a plain string, which carries no
\* source line number.
Filler == [text |-> ""]

is_filler(x) == "sourceline" \notin DOMAIN x

min_of(S) == CHOOSE m \in S : \A n \in S : m <= n
max_of(S) == CHOOSE m \in S : \A n \in S : m >= n

\* Lines 233-236.
minimalsourceline(its) ==
  min_of({maxguard} \cup
         {its[k][1].sourceline : k \in {c \in DOMAIN its : its[c] # <<>>}})

\* takes with the test on the source line number left out.
takes_any(lines, minimal) == lines # <<>>

\* takes with < for <= on line 241.
takes_strict(lines, minimal) ==
  lines # <<>> /\ lines[1].sourceline < minimal

\* Line 241: the first line of the stream is moved now.
takes(lines, minimal) == lines # <<>> /\ lines[1].sourceline <= minimal

\* The dict that holds f[k] for each k of keys, built entry by entry.
RECURSIVE dict(_, _)
dict(keys, f) ==
  IF keys = {} THEN <<>>
  ELSE LET k == CHOOSE c \in keys : TRUE
       IN  (k :> f[k]) @@ dict(keys \ {k}, f)

\* Lines 240-249: one iteration past the break.
expand_iteration(its, new) ==
  LET minimal == minimalsourceline(its)
      moved == [k \in DOMAIN new |->
                  IF takes(its[k], minimal) THEN Append(new[k], its[k][1])
                  ELSE new[k]]
      number_of_lines == max_of({Len(moved[k]) : k \in DOMAIN moved})
  IN  [items |->
         dict(DOMAIN its,
              [k \in DOMAIN its |->
                 IF takes(its[k], minimal) THEN Tail(its[k]) ELSE its[k]]),
       cfg2newlines |->
         dict(DOMAIN moved,
              [k \in DOMAIN moved |->
                 moved[k]
                 \o [i \in 1..(number_of_lines - Len(moved[k])) |-> Filler]])]

RECURSIVE expand_run(_, _)
expand_run(its, new) ==
  IF minimalsourceline(its) = maxguard THEN new
  ELSE LET r == expand_iteration(its, new)
       IN  expand_run(r.items, r.cfg2newlines)

expand_to_match(its) == expand_run(its, [k \in DOMAIN its |-> <<>>])

\* The keys of the streams: two configurations and the reference pass.
AlignKeys == {None, << <<"A", FALSE>> >>, << <<"A", TRUE>> >>}

\* The lists of lines preprocess_filename can return: source line numbers
\* never decrease, and a line whose macros expand to several lines gives
\* several lines of one number.
Streams ==
  {st \in UNION {[1..n -> {Str_sourceline("line", l) : l \in 0..MaxSourceLine}] :
                   n \in 0..MaxStreamLen} :
     \A i \in 1..(Len(st) - 1) : st[i].sourceline <= st[i + 1].sourceline}

InitAlign ==
  /\ preprocessed \in [AlignKeys -> Streams]
  /\ cfg2newlines = [k \in AlignKeys |-> <<>>]
  /\ pc = "expand_to_match"
  /\ linecount = 0
  /\ src = <<>>
  /\ condition_stack = <<>>
  /\ conditions = {}
  /\ configurations = {}
  /\ PreIdle
  /\ TagIdle
  /\ EmitIdle
  /\ PipeIdle
  /\ MacroIdle

\* One iteration of "while True" that does not break.
expand_step ==
  /\ pc = "expand_to_match"
  /\ minimalsourceline(preprocessed) # maxguard
  /\ LET r == expand_iteration(preprocessed, cfg2newlines)
     IN  preprocessed' = r.items /\ cfg2newlines' = r.cfg2newlines
  /\ UNCHANGED <<src, pc, linecount, scanVars, preVars, tagVars, emitVars,
                 pipeVars,
                 macroVars>>

\* break; return cfg2newlines
expand_return ==
  /\ pc = "expand_to_match"
  /\ minimalsourceline(preprocessed) = maxguard
  /\ pc' = "done"
  /\ UNCHANGED <<src, linecount, scanVars, preVars, tagVars, emitVars,
                 alignVars, pipeVars,
                 macroVars>>

NextAlign == expand_step \/ expand_return

SpecAlign == InitAlign /\ [][NextAlign]_vars

\* expand_to_match is a loop of one thread: once called it runs on.
SpecAlignFair == SpecAlign /\ WF_vars(NextAlign)

-----------------------------------------------------------------------------
(* process_filename.  A text is the sequence of its lines, each without    *)
(* its newline: ''.join(lines) and text.split('\n') each keep that         *)
(* sequence, no line of the files below holding a newline or a C comment.  *)

py_banner == "# Generated by cythonpp.py on <timestamp>"
c_banner == "/* Generated by cythonpp.py on <timestamp> */"

\* ''.join(lines)
texts(lines) == [i \in 1..Len(lines) |-> lines[i].text]

\* md5(value.encode("utf-8")).hexdigest(): one digest for each text.
md5(text) == [hexdigest |-> text]

\* The external compiler, when it succeeds: lineA compiles to outA, lineB to
\* outB, any other line to itself.
cython(text) ==
  [i \in 1..Len(text) |->
     IF text[i] = "lineA" THEN "outA"
     ELSE IF text[i] = "lineB" THEN "outB"
     ELSE text[i]]

\* postprocess_cython_output of a text with no multi-line comment whose
\* first line is not cython's own header.
postprocess_cython_output(text) == <<c_banner>> \o text

\* attach_tags(text, tags): Str(x, set(tags)) holds the list [set(tags)].
attach_tags(text, tgs) ==
  [i \in 1..Len(text) |-> Tagged(text[i], <<Range(tgs)>>)]

\* cache.get(sourcehash) that finds nothing.
cached_never(c, sourcehash) == FALSE

\* Lines 524, 526: cache.get(sourcehash) is not None.
cached(c, sourcehash) == sourcehash \in DOMAIN c

\* find_longest_match that finds no block.
find_longest_match_none(a, b, alo, ahi, blo, bhi) == <<alo, blo, 0>>

\* SequenceMatcher.find_longest_match over a[alo..ahi] and b[blo..bhi] with
\* no junk: <<i, j, k>> of the longest block a[i..i+k-1] = b[j..j+k-1], of
\* those the one that starts first in a, of those the one first in b; k = 0
\* when no line matches.  Lines compare as strings, tags aside.
find_longest_match(a, b, alo, ahi, blo, bhi) ==
  LET blocks ==
        {m \in (alo..ahi) \X (blo..bhi) \X (1..Len(a)) :
           /\ m[1] + m[3] - 1 <= ahi
           /\ m[2] + m[3] - 1 <= bhi
           /\ \A t \in 0..(m[3] - 1) : a[m[1] + t].text = b[m[2] + t].text}
  IN  IF blocks = {} THEN <<alo, blo, 0>>
      ELSE CHOOSE m \in blocks :
             \A n \in blocks :
               \/ m[3] > n[3]
               \/ m[3] = n[3] /\ m[1] < n[1]
               \/ m[3] = n[3] /\ m[1] = n[1] /\ m[2] <= n[2]

\* _merge that gives the lines of an "equal" block the tags of a alone.
RECURSIVE merge_opcodes_tags_of_a(_, _, _, _, _, _)
merge_opcodes_tags_of_a(a, b, alo, ahi, blo, bhi) ==
  LET m == find_longest_match(a, b, alo, ahi, blo, bhi)
  IN  IF m[3] = 0 THEN SubSeq(a, alo, ahi) \o SubSeq(b, blo, bhi)
      ELSE merge_opcodes_tags_of_a(a, b, alo, m[1] - 1, blo, m[2] - 1)
           \o SubSeq(a, m[1], m[1] + m[3] - 1)
           \o merge_opcodes_tags_of_a(a, b, m[1] + m[3], ahi, m[2] + m[3], bhi)

\* _merge over the opcodes of a[alo..ahi] against b[blo..bhi]: the longest
\* block is "equal", what lies left and right of it is matched in turn, and
\* where nothing matches the lines of a come before the lines of b.
RECURSIVE merge_opcodes(_, _, _, _, _, _)
merge_opcodes(a, b, alo, ahi, blo, bhi) ==
  LET m == find_longest_match(a, b, alo, ahi, blo, bhi)
  IN  IF m[3] = 0 THEN SubSeq(a, alo, ahi) \o SubSeq(b, blo, bhi)
      ELSE merge_opcodes(a, b, alo, m[1] - 1, blo, m[2] - 1)
           \o [t \in 1..m[3] |->
                 Tagged(a[m[1] + t - 1].text,
                        a[m[1] + t - 1].tags \o b[m[2] + t - 1].tags)]
           \o merge_opcodes(a, b, m[1] + m[3], ahi, m[2] + m[3], bhi)

merge_pair(a, b) == merge_opcodes(a, b, 1, Len(a), 1, Len(b))

\* merge(sources), for at least one source.
RECURSIVE merge(_)
merge(srcs) ==
  IF Len(srcs) <= 1 THEN
    [i \in 1..Len(srcs[1]) |->
       Tagged(srcs[1][i].text, simplify_tags(srcs[1][i].tags))]
  ELSE merge(<<merge_pair(srcs[1], srcs[2])>> \o SubSeq(srcs, 3, Len(srcs)))

PipeAlphabet ==
  {IfdefLine("F"), ElseLine, EndifLine, TextLine("lineA"), TextLine("lineB")}

InitPipe ==
  /\ src \in Files(PipeAlphabet, MaxPipeLen)
  /\ pc = "process_filename"
  /\ linecount = 0
  /\ condition_stack = <<>>
  /\ conditions = {}
  /\ configurations = {}
  /\ PreIdle
  /\ TagIdle
  /\ EmitIdle
  /\ AlignIdle
  /\ PipeIdle
  /\ MacroIdle

\* Line 67: get_configurations raises or exits.
process_reject ==
  /\ pc = "process_filename"
  /\ ~accepted(src)
  /\ pc' = "aborted"
  /\ UNCHANGED <<src, linecount, scanVars, preVars, tagVars, emitVars,
                 alignVars, pipeVars,
                 macroVars>>

\* Lines 66-74: enumerate, preprocess every configuration and None, align.
process_preprocess ==
  /\ pc = "process_filename"
  /\ accepted(src)
  /\ conditions' = get_conditions(src).conditions
  /\ configurations' = get_configurations_of(conditions')
  /\ LET keys == configurations' \cup {None}
         aligned == expand_to_match(
                      [k \in keys |-> preprocess_filename(src, k).result])
     IN  /\ preprocessed' = [k \in configurations' |-> aligned[k]]
         /\ reference_pyx' = aligned[None]
  /\ todo' = sorted_tuples(configurations')
  /\ pc' = IF todo' = <<>> THEN "generate_merged" ELSE "atomic_write"
  /\ UNCHANGED <<src, linecount, condition_stack, preVars, tagVars, emitVars,
                 cfg2newlines, value, sources, cache, compiled, pyx_file,
                 output_file,
                 macroVars>>

\* Lines 77-82: the next configuration; its text is written to the .pyx path.
process_write_pyx ==
  /\ pc = "atomic_write"
  /\ config' = Head(todo)
  /\ value' = texts(preprocessed[Head(todo)])
  /\ pyx_file' = <<py_banner>> \o value'
  /\ pc' = "run_cython"
  /\ UNCHANGED <<src, linecount, scanVars, including_section, result, tagVars,
                 emitVars, alignVars, reference_pyx, todo, sources, cache,
                 compiled, output_file,
                 macroVars>>

\* Where the loop of line 77 goes after line 88.
after_run == IF Len(todo) = 1 THEN "generate_merged" ELSE "atomic_write"

\* Lines 526-528 and 88: the digest is in the cache.
run_cython_reuse ==
  /\ pc = "run_cython"
  /\ cached(cache, md5(value))
  /\ sources' = Append(sources, attach_tags(cache[md5(value)], config))
  /\ todo' = Tail(todo)
  /\ pc' = after_run
  /\ UNCHANGED <<src, linecount, scanVars, preVars, tagVars, emitVars,
                 alignVars, reference_pyx, value, cache, compiled, pyx_file,
                 output_file,
                 macroVars>>

\* Lines 529-532 and 88: the compiler writes the output path and succeeds.
run_cython_compile ==
  /\ pc = "run_cython"
  /\ ~cached(cache, md5(value))
  /\ compiled' = Append(compiled, md5(value))
  /\ output_file' = cython(pyx_file)
  /\ cache' = (md5(value) :> postprocess_cython_output(output_file')) @@ cache
  /\ sources' = Append(sources, attach_tags(cache'[md5(value)], config))
  /\ todo' = Tail(todo)
  /\ pc' = after_run
  /\ UNCHANGED <<src, linecount, scanVars, preVars, tagVars, emitVars,
                 alignVars, reference_pyx, value, pyx_file,
                 macroVars>>

\* Lines 529, 537-539: the compiler fails, writing nothing.
run_cython_fail ==
  /\ pc = "run_cython"
  /\ ~cached(cache, md5(value))
  /\ compiled' = Append(compiled, md5(value))
  /\ pc' = "aborted"
  /\ UNCHANGED <<src, linecount, scanVars, preVars, tagVars, emitVars,
                 alignVars, reference_pyx, todo, value, sources, cache,
                 pyx_file, output_file,
                 macroVars>>

\* Lines 91, 207-208: no configuration, and sources[0] raises IndexError.
merge_error ==
  /\ pc = "generate_merged"
  /\ sources = <<>>
  /\ pc' = "aborted"
  /\ UNCHANGED <<src, linecount, scanVars, preVars, tagVars, emitVars,
                 alignVars, pipeVars,
                 macroVars>>

\* Lines 91-92: merge, emit and write the output path.
generate_merged ==
  /\ pc = "generate_merged"
  /\ sources # <<>>
  /\ merged' = merge(sources)
  /\ output' = produce_preprocessor(merged')
  /\ output_file' = texts(output')
  /\ pc' = "save_pyx"
  /\ UNCHANGED <<src, linecount, scanVars, preVars, tagVars, state,
                 yielded_at, alignVars, reference_pyx, todo, value, sources,
                 cache, compiled, pyx_file,
                 macroVars>>

\* A run that ends after line 92, the .pyx path left as the loop wrote it.
save_pyx_skipped ==
  /\ pc = "save_pyx"
  /\ pc' = "done"
  /\ UNCHANGED <<src, linecount, scanVars, preVars, tagVars, emitVars,
                 alignVars, pipeVars, macroVars>>

\* Lines 95-97: the reference text is saved to the .pyx path.
save_pyx ==
  /\ pc = "save_pyx"
  /\ pyx_file' = <<py_banner>> \o texts(reference_pyx)
  /\ pc' = "done"
  /\ UNCHANGED <<src, linecount, scanVars, preVars, tagVars, emitVars,
                 alignVars, reference_pyx, todo, value, sources, cache,
                 compiled, output_file,
                 macroVars>>

NextPipe ==
  \/ process_reject
  \/ process_preprocess
  \/ process_write_pyx
  \/ run_cython_reuse
  \/ run_cython_compile
  \/ run_cython_fail
  \/ merge_error
  \/ generate_merged
  \/ save_pyx

SpecPipe == InitPipe /\ [][NextPipe]_vars

-----------------------------------------------------------------------------
(* merge on the outputs process_filename collects at line 88: one output   *)
(* of at most MaxMergeLen lines for each configuration of a set of         *)
(* complete configurations over no name, over A, or over A and B, in the   *)
(* sorted order of line 77.                                                *)

MergeLines == {"outA", "outB"}

\* The complete configurations over the first n names, as sorted tuples.
merge_configurations(n) ==
  {[i \in 1..n |-> <<AllNames[i], b[i]>>] : b \in [1..n -> BOOLEAN]}

MergeConfigurationSets ==
  UNION {SUBSET merge_configurations(n) : n \in 0..2}

InitMerge ==
  /\ configurations \in MergeConfigurationSets
  /\ \E outs \in [1..Cardinality(configurations) ->
                    UNION {[1..m -> MergeLines] : m \in 0..MaxMergeLen}] :
       sources = [k \in 1..Cardinality(configurations) |->
                    attach_tags(outs[k], sorted_tuples(configurations)[k])]
  /\ pc = "merge"
  /\ src = <<>>
  /\ linecount = 0
  /\ condition_stack = <<>>
  /\ conditions = {}
  /\ PreIdle
  /\ TagIdle
  /\ EmitIdle
  /\ AlignIdle
  /\ reference_pyx = <<>>
  /\ todo = <<>>
  /\ value = <<>>
  /\ cache = <<>>
  /\ compiled = <<>>
  /\ pyx_file = <<>>
  /\ output_file = <<>>
  /\ MacroIdle

\* Lines 207-209: the fold of _merge over the sources, then simplify_tags on
\* every line.
merge_return ==
  /\ pc = "merge"
  /\ sources # <<>>
  /\ merged' = merge(sources)
  /\ pc' = "done"
  /\ UNCHANGED <<src, linecount, scanVars, preVars, tagVars, state, output,
                 yielded_at, alignVars, pipeVars, macroVars>>

\* Line 208: sources[0] of no source raises IndexError.
merge_raise ==
  /\ pc = "merge"
  /\ sources = <<>>
  /\ pc' = "raise"
  /\ UNCHANGED <<src, linecount, scanVars, preVars, tagVars, emitVars,
                 alignVars, pipeVars, macroVars>>

NextMerge == merge_return \/ merge_raise

SpecMerge == InitMerge /\ [][NextMerge]_vars

-----------------------------------------------------------------------------
(* expand_definitions, one iteration of its loop at a time, on a text of   *)
(* at most MaxTokens of the tokens below under one of the tables below.    *)

M0 == <<>>
M1 == <<"A">> :> [lines |-> << <<"1">> >>, params |-> <<>>]
M2 == M1 @@ <<"B">> :> [lines |-> << <<"A", "+", "1">> >>, params |-> <<>>]
M3 == <<"A">> :> [lines |-> << <<"A">> >>, params |-> <<>>]
M4 == <<"A">> :> [lines |-> << <<"B">> >>, params |-> <<>>] @@
      <<"B">> :> [lines |-> << <<"A">> >>, params |-> <<>>]
M5 == <<"F">> :> [lines |-> << <<"x", "+", "1">> >>, params |-> << <<"x">> >>]
M6 == <<"G">> :> [lines |-> << <<"x", "+", "y">> >>,
                  params |-> << <<"x">>, <<"y">> >>]
M7 == M1 @@ <<"A", "B">> :> [lines |-> << <<"2">> >>, params |-> <<>>]

\* The tables whose expansions end within a few iterations.
Tables == {M0, M1, M2, M3, M5, M6, M7}

Tokens ==
  {<<"A">>, <<"B">>, <<"w">>, <<"1">>, <<"+">>, <<"#", "#">>, <<"\n">>,
   <<"F">>, <<"G">>, <<"(", " ", "2", ")">>, <<"(", "x", ")">>,
   <<"(", "1", ",", "2", ")">>, <<"(", "1", ",", "x", ")">>}

RECURSIVE Codes(_)
Codes(n) ==
  IF n = 0 THEN {<<>>}
  ELSE LET shorter == Codes(n - 1)
       IN  shorter \cup {c \o t : c \in shorter, t \in Tokens}

\* The macros of M4 replace each other for ever: one token of text is
\* enough for the loop to run to its last iteration.
MacroInputs ==
  (Codes(MaxTokens) \X Tables) \cup (Codes(1) \X {M4})

InitMacro ==
  /\ \E input \in MacroInputs : newcode = input[1] /\ macros = input[2]
  /\ substitutions = 0
  /\ current_name = <<>>
  /\ src = <<>>
  /\ pc = "expand_definitions"
  /\ linecount = 0
  /\ condition_stack = <<>>
  /\ conditions = {}
  /\ configurations = {}
  /\ PreIdle
  /\ TagIdle
  /\ EmitIdle
  /\ AlignIdle
  /\ PipeIdle

\* Lines 453-454: nothing is defined.
expand_definitions_empty ==
  /\ pc = "expand_definitions"
  /\ DOMAIN macros = {}
  /\ pc' = "return"
  /\ UNCHANGED <<src, linecount, scanVars, preVars, tagVars, emitVars,
                 alignVars, pipeVars, macroVars>>

\* Lines 495-500: one substitution that changed the text.
expand_definitions_step ==
  /\ pc = "expand_definitions"
  /\ DOMAIN macros # {}
  /\ substitutions < MaxSubstitutions
  /\ \E n \in {expand_iteration_of(newcode, macros, expand_arguments)} :
       /\ ~n.done
       /\ newcode' = n.code
  /\ substitutions' = substitutions + 1
  /\ UNCHANGED <<src, pc, linecount, scanVars, preVars, tagVars, emitVars,
                 alignVars, pipeVars, macros, current_name>>

\* Line 499: no invocation is left.
expand_definitions_return ==
  /\ pc = "expand_definitions"
  /\ DOMAIN macros # {}
  /\ substitutions < MaxSubstitutions
  /\ \E n \in {expand_iteration_of(newcode, macros, expand_arguments)} :
       n.done /\ n.error = ""
  /\ pc' = "return"
  /\ UNCHANGED <<src, linecount, scanVars, preVars, tagVars, emitVars,
                 alignVars, pipeVars, macroVars>>

\* Lines 484 and 498: repl raises, or the substitution left the text as it
\* was.
expand_definitions_raise ==
  /\ pc = "expand_definitions"
  /\ DOMAIN macros # {}
  /\ substitutions < MaxSubstitutions
  /\ \E n \in {expand_iteration_of(newcode, macros, expand_arguments)} :
       n.done /\ n.error # "" /\ pc' = n.error
  /\ UNCHANGED <<src, linecount, scanVars, preVars, tagVars, emitVars,
                 alignVars, pipeVars, macroVars>>

\* Line 501: the loop ran out.
expand_definitions_give_up ==
  /\ pc = "expand_definitions"
  /\ DOMAIN macros # {}
  /\ substitutions = MaxSubstitutions
  /\ pc' = TooManySubstitutions
  /\ UNCHANGED <<src, linecount, scanVars, preVars, tagVars, emitVars,
                 alignVars, pipeVars, macroVars>>

NextMacro ==
  \/ expand_definitions_empty
  \/ expand_definitions_step
  \/ expand_definitions_return
  \/ expand_definitions_raise
  \/ expand_definitions_give_up

SpecMacro == InitMacro /\ [][NextMacro]_vars

\* expand_definitions is a loop of one thread: once called it runs on.
SpecMacroFair == SpecMacro /\ WF_vars(NextMacro)

-----------------------------------------------------------------------------
(* preprocess_filename on files that hold #define lines.  The text of a    *)
(* line is the sequence of its characters, its newline included; a name of *)
(* a condition counts for one character.  A #define line is the record of  *)
(* the groups define_re finds in it: name, params, and in p the value      *)
(* without the backslash that more stands for.                             *)

DefineLine(name, params, v, more) ==
  [k |-> "define", p |-> v, name |-> name, params |-> params, more |-> more]

\* ', '.join(params) between parentheses, nothing for no parameter.
RECURSIVE joined_params(_)
joined_params(params) ==
  IF params = <<>> THEN <<>>
  ELSE IF Len(params) = 1 THEN params[1]
  ELSE params[1] \o <<",">> \o joined_params(Tail(params))

\* The characters of a physical line.
chars_of(line) ==
  IF line.k = "if" THEN <<"#", "i", "f", " ", line.p, "\n">>
  ELSE IF line.k = "ifdef" THEN
    <<"#", "i", "f", "d", "e", "f", " ", line.p, "\n">>
  ELSE IF line.k = "else" THEN <<"#", "e", "l", "s", "e", "\n">>
  ELSE IF line.k = "endif" THEN <<"#", "e", "n", "d", "i", "f", "\n">>
  ELSE IF line.k = "define" THEN
    <<"#", "d", "e", "f", "i", "n", "e", " ">> \o line.name \o
    (IF line.params = <<>> THEN <<>>
     ELSE <<"(">> \o joined_params(line.params) \o <<")">>) \o
    <<" ">> \o line.p \o (IF line.more THEN <<" ", "\\">> ELSE <<>>) \o
    <<"\n">>
  ELSE line.p

\* x.split('\n')
RECURSIVE split_lines(_)
split_lines(x) ==
  IF \E i \in 1..Len(x) : x[i] = "\n"
  THEN LET i == CHOOSE i \in 1..Len(x) :
                  x[i] = "\n" /\ \A j \in 1..(i - 1) : x[j] # "\n"
       IN  <<SubSeq(x, 1, i - 1)>> \o split_lines(SubSeq(x, i + 1, Len(x)))
  ELSE <<x>>

Digits == {"1", "2"}

\* param_name_re.match(param)
valid_parameter_name(param) ==
  /\ param # <<>>
  /\ param[1] \in WordChars \ Digits
  /\ \A i \in 1..Len(param) : param[i] \in WordChars

\* Lines 176-180: the lines of the expansion, each with its newline and the
\* number of the source line.
expansion_lines(code, n) ==
  LET lines == split_lines(code)
      kept == IF lines[Len(lines)] = <<>>
              THEN SubSeq(lines, 1, Len(lines) - 1) ELSE lines
  IN  [i \in 1..Len(kept) |-> Str_sourceline(kept[i] \o <<"\n">>, n - 1)]

\* One line of preprocess_filename; n is linecount after the increment and
\* st holds including_section, result, definitions and current_name (<<>>
\* for None).
pp_define_line(st, line, n, cfg) ==
  IF st.current_name # <<>> THEN
    \* lines 124-131: one more line of the macro being defined
    LET rstripped == rstrip(chars_of(line))
        more == rstripped # <<>> /\ rstripped[Len(rstripped)] = "\\"
        v == IF more THEN rstrip(SubSeq(rstripped, 1, Len(rstripped) - 1))
             ELSE rstripped
    IN  [st EXCEPT !.definitions[st.current_name].lines = Append(@, v),
                   !.current_name = IF more THEN @ ELSE <<>>]
  ELSE IF line.k = "define" /\ ~skips(st.including) THEN
    \* lines 138-148
    IF \E i \in 1..Len(line.params) : ~valid_parameter_name(line.params[i])
    THEN [st EXCEPT !.error = "SyntaxError"]
    ELSE [st EXCEPT
            !.definitions =
               (line.name :> [lines |-> <<line.p>>, params |-> line.params])
               @@ @,
            !.current_name = IF line.more THEN line.name ELSE <<>>]
  ELSE IF match_condition(line) /\ cfg # None THEN
    \* lines 152-166
    IF line.k = "else" THEN
      IF st.including = <<>> THEN [st EXCEPT !.error = "SyntaxError"]
      ELSE [st EXCEPT !.including[Len(st.including)] = ~@]
    ELSE IF line.k = "endif" THEN
      IF st.including = <<>> THEN [st EXCEPT !.error = "SyntaxError"]
      ELSE [st EXCEPT !.including = SubSeq(@, 1, Len(@) - 1)]
    ELSE [st EXCEPT !.including = Append(@, is_condition_true(cfg, line))]
  ELSE IF skips(st.including) THEN st
  ELSE IF lstrip(rstrip(chars_of(line))) # <<>> /\
          Head(lstrip(rstrip(chars_of(line)))) = "#" THEN
    \* lines 171-173: a line that starts with # is left as it is
    [st EXCEPT !.result = Append(@, Str_sourceline(chars_of(line), n - 1))]
  ELSE
    \* lines 175-180
    bind(expand_definitions(chars_of(line), st.definitions), LAMBDA r :
      IF r.error # "" THEN [st EXCEPT !.error = "SyntaxError"]
      ELSE [st EXCEPT !.result = @ \o expansion_lines(r.code, n)])

\* The lines a file is made of: every line but the last ends with a newline.
RefAlphabet ==
  {DefineLine(<<"A">>, <<>>, <<"1">>, FALSE),
   DefineLine(<<"B">>, <<>>, <<"A">>, TRUE),
   DefineLine(<<"F">>, << <<"x">> >>, <<"x">>, FALSE),
   IfLine("X"), ElseLine, EndifLine,
   TextLine(<<"#", " ", "A", "\n">>),
   TextLine(<<"A", " ", "B", "\n">>),
   TextLine(<<"+", " ", "\\", "\n">>),
   TextLine(<<"F", "(", "x", ")", "\n">>),
   TextLine(<<"F", "(", " ", ")">>),
   TextLine(<<"w">>)}

ends_with_newline(line) == chars_of(line)[Len(chars_of(line))] = "\n"

\* The line holds the name somewhere.
mentions(line, name) ==
  name # <<>> /\
  \E i \in 1..Len(chars_of(line)) : text_at(chars_of(line), i, name)

InitRef ==
  /\ src = <<>>
  /\ pc = "preprocess"
  /\ linecount = 0
  /\ config = None
  /\ including_section = <<>>
  /\ result = <<>>
  /\ macros = <<>>
  /\ current_name = <<>>
  /\ newcode = <<>>
  /\ substitutions = 0
  /\ condition_stack = <<>>
  /\ conditions = {}
  /\ configurations = {}
  /\ TagIdle
  /\ EmitIdle
  /\ AlignIdle
  /\ PipeIdle

\* for line in open(filename): one more line, read in reference mode.  A
\* macro whose lines mention its own name takes expand_definitions to the
\* end of its loop, which SpecMacro covers: no file here defines one.
reference_line ==
  /\ pc = "preprocess"
  /\ linecount < MaxRefLen
  /\ IF src = <<>> THEN TRUE ELSE ends_with_newline(src[Len(src)])
  /\ \E line \in {l \in RefAlphabet : ~mentions(l, current_name)} :
       \E r \in {pp_define_line([including |-> including_section,
                                 result |-> result,
                                 definitions |-> macros,
                                 current_name |-> current_name,
                                 error |-> ""],
                                line, linecount + 1, config)} :
         /\ src' = Append(src, line)
         /\ linecount' = linecount + 1
         /\ including_section' = r.including
         /\ result' = r.result
         /\ macros' = r.definitions
         /\ current_name' = r.current_name
         /\ pc' = IF r.error = "" THEN "preprocess" ELSE "exit"
  /\ UNCHANGED <<config, scanVars, tagVars, emitVars, alignVars, pipeVars,
                 newcode, substitutions>>

\* End of file: return result.
reference_return ==
  /\ pc = "preprocess"
  /\ pc' = "done"
  /\ UNCHANGED <<src, linecount, scanVars, preVars, tagVars, emitVars,
                 alignVars, pipeVars, macroVars>>

NextRef == reference_line \/ reference_return

SpecRef == InitRef /\ [][NextRef]_vars

-----------------------------------------------------------------------------
(* preprocess_filename under a configuration, on a file get_conditions     *)
(* accepts that holds #define lines: the first, of one line, defines A and *)
(* the second, continued on the line after it, defines B.  No line         *)
(* expanded mentions B.                                                    *)

MirrorAlphabet ==
  {DefineLine(<<"A">>, <<>>, <<"1">>, FALSE),
   DefineLine(<<"B">>, <<>>, <<"A">>, TRUE),
   IfLine("X"), ElseLine, EndifLine,
   TextLine(<<"A", "\n">>)}

\* The configurations of get_configurations for the file, and the two over X.
mirror_configs(s) ==
  get_configurations_of(get_conditions(s).conditions)
    \cup {<< <<"X", TRUE>> >>, << <<"X", FALSE>> >>}

InitMirror ==
  /\ src \in {s \in Files(MirrorAlphabet, MaxMirrorLen) : accepted(s)}
  /\ config \in mirror_configs(src)
  /\ pc = "preprocess"
  /\ linecount = 0
  /\ including_section = <<>>
  /\ result = <<>>
  /\ macros = <<>>
  /\ current_name = <<>>
  /\ newcode = <<>>
  /\ substitutions = 0
  /\ condition_stack = <<>>
  /\ conditions = {}
  /\ configurations = {}
  /\ TagIdle
  /\ EmitIdle
  /\ AlignIdle
  /\ PipeIdle

\* for line in open(filename): the next line.
configured_line ==
  /\ pc = "preprocess"
  /\ linecount < Len(src)
  /\ \E r \in {pp_define_line([including |-> including_section,
                               result |-> result,
                               definitions |-> macros,
                               current_name |-> current_name,
                               error |-> ""],
                              src[linecount + 1], linecount + 1, config)} :
       /\ linecount' = linecount + 1
       /\ including_section' = r.including
       /\ result' = r.result
       /\ macros' = r.definitions
       /\ current_name' = r.current_name
       /\ pc' = IF r.error = "" THEN "preprocess" ELSE "exit"
  /\ UNCHANGED <<src, config, scanVars, tagVars, emitVars, alignVars,
                 pipeVars, newcode, substitutions>>

\* return result
configured_return ==
  /\ pc = "preprocess"
  /\ linecount = Len(src)
  /\ pc' = "done"
  /\ UNCHANGED <<src, linecount, scanVars, preVars, tagVars, emitVars,
                 alignVars, pipeVars, macroVars>>

NextMirror == configured_line \/ configured_return

SpecMirror == InitMirror /\ [][NextMirror]_vars

-----------------------------------------------------------------------------
(* process_filename, one preprocessing pass at a time, on a file that may  *)
(* hold #define lines: a pass can fail on a file get_configurations        *)
(* accepts.  The passes done, the run goes on as in SpecPipe.              *)

\* ''.join(chars): the text of a line as one string.
RECURSIVE str_of(_)
str_of(chars) == IF chars = <<>> THEN "" ELSE Head(chars) \o str_of(Tail(chars))

RECURSIVE pp_define_run(_, _, _)
\* preprocess_filename after the first i lines of s; an error ends the pass.
pp_define_run(s, i, cfg) ==
  IF i = 0 THEN [including |-> <<>>, result |-> <<>>, definitions |-> <<>>,
                 current_name |-> <<>>, error |-> ""]
  ELSE bind(pp_define_run(s, i - 1, cfg), LAMBDA r :
         IF r.error # "" THEN r ELSE pp_define_line(r, s[i], i, cfg))

\* A pass whose errors are lost.
preprocess_pass_unchecked(s, cfg) ==
  [pp_define_run(s, Len(s), cfg) EXCEPT !.error = ""]

\* Lines 67, 68: preprocess_filename(filename, config), the whole pass.
preprocess_pass(s, cfg) == pp_define_run(s, Len(s), cfg)

\* The lines a pass returns, each text as a string.
lines_of(res) ==
  [i \in 1..Len(res) |-> Str_sourceline(str_of(res[i].text), res[i].sourceline)]

StageAlphabet ==
  {IfLine("X"), ElseLine, EndifLine,
   DefineLine(<<"B">>, <<>>, <<"A">>, TRUE),
   DefineLine(<<"F">>, << <<"x">> >>, <<"x">>, FALSE),
   TextLine(<<"F", "\n">>),
   TextLine(<<"A", "\n">>)}

InitStages ==
  /\ src \in Files(StageAlphabet, MaxStageLen)
  /\ pc = "process_filename"
  /\ linecount = 0
  /\ condition_stack = <<>>
  /\ conditions = {}
  /\ configurations = {}
  /\ PreIdle
  /\ TagIdle
  /\ EmitIdle
  /\ AlignIdle
  /\ PipeIdle
  /\ MacroIdle

\* Line 67: get_configurations returns.
process_configurations ==
  /\ pc = "process_filename"
  /\ accepted(src)
  /\ conditions' = get_conditions(src).conditions
  /\ configurations' = get_configurations_of(conditions')
  /\ pc' = "preprocess_filename"
  /\ UNCHANGED <<src, linecount, condition_stack, preVars, tagVars, emitVars,
                 alignVars, pipeVars, macroVars>>

\* The passes still to run: line 69 comes after the loop of lines 67-68,
\* which takes the set in no order the program chooses.
pending_passes ==
  IF configurations \subseteq DOMAIN preprocessed
  THEN {None} \ DOMAIN preprocessed
  ELSE configurations \ DOMAIN preprocessed

\* Lines 68, 69: one pass; its error ends the run at lines 181-187.
process_pass ==
  /\ pc = "preprocess_filename"
  /\ \E k \in pending_passes :
       \E r \in {preprocess_pass(src, k)} :
         /\ config' = k
         /\ preprocessed' =
              IF r.error # "" THEN preprocessed
              ELSE (k :> lines_of(r.result)) @@ preprocessed
         /\ pc' = IF r.error # "" THEN "aborted" ELSE "preprocess_filename"
  /\ UNCHANGED <<src, linecount, scanVars, including_section, result, tagVars,
                 emitVars, cfg2newlines, pipeVars, macroVars>>

\* Lines 71-77: align the streams, take the reference stream out.
process_align ==
  /\ pc = "preprocess_filename"
  /\ pending_passes = {}
  /\ \E aligned \in {expand_to_match(preprocessed)} :
       /\ preprocessed' = dict(configurations, aligned)
       /\ reference_pyx' = aligned[None]
  /\ todo' = sorted_tuples(configurations)
  /\ pc' = IF todo' = <<>> THEN "generate_merged" ELSE "atomic_write"
  /\ UNCHANGED <<src, linecount, scanVars, preVars, tagVars, emitVars,
                 cfg2newlines, value, sources, cache, compiled, pyx_file,
                 output_file, macroVars>>

NextStages ==
  \/ process_reject
  \/ process_configurations
  \/ process_pass
  \/ process_align
  \/ process_write_pyx
  \/ run_cython_reuse
  \/ run_cython_compile
  \/ run_cython_fail
  \/ merge_error
  \/ generate_merged
  \/ save_pyx

SpecStages == InitStages /\ [][NextStages]_vars

-----------------------------------------------------------------------------
(* Properties of the configuration enumerator *)

names_of(c) == {c[i][1] : i \in 1..Len(c)}

Consistent(c) ==
  \A i, j \in 1..Len(c) : c[i][1] = c[j][1] => c[i][2] = c[j][2]

\* The #if/#ifdef lines of s that test name n.
if_lines(s, n) ==
  {i \in 1..Len(s) : s[i].k \in {"if", "ifdef"} /\ parameter_of(s[i]) = n}

if_names(s) ==
  {parameter_of(s[i]) : i \in {j \in 1..Len(s) : s[j].k \in {"if", "ifdef"}}}

\* The directive stack after the first i lines of s.
RECURSIVE stack_at(_, _)
stack_at(s, i) ==
  IF i = 0 THEN <<>> ELSE gc_line(stack_at(s, i - 1), {}, s[i]).stack

\* X and Y are tested by one #if each, the two blocks are closed and never
\* nested, and the #if branch of each holds a non-directive line.
TwoIndependentBlocks ==
  /\ Cardinality(if_lines(src, "X")) = 1
  /\ Cardinality(if_lines(src, "Y")) = 1
  /\ \A i \in 1..Len(src) : Len(stack_at(src, i)) <= 1
  /\ condition_stack = <<>>
  /\ << <<"X", TRUE>> >> \in conditions
  /\ << <<"Y", TRUE>> >> \in conditions

\* Some non-directive line is outside both blocks or in an #else branch.
LineOutsideIfBranches ==
  \/ <<>> \in conditions
  \/ << <<"X", FALSE>> >> \in conditions
  \/ << <<"Y", FALSE>> >> \in conditions

FourConfigurations ==
  { << <<"X", FALSE>>, <<"Y", FALSE>> >>, << <<"X", FALSE>>, <<"Y", TRUE>> >>,
    << <<"X", TRUE>>, <<"Y", FALSE>> >>, << <<"X", TRUE>>, <<"Y", TRUE>> >> }

consistent_stack_names ==
  UNION {names_of(s) : s \in {t \in conditions : Consistent(t)}}

conds_of(sel) == UNION {Range(s) : s \in sel}

\* c is the Conditions of some recorded stacks, and every other name False.
DefaultsToFalse(c) ==
  \E sel \in SUBSET conditions :
    Range(c) = conds_of(sel) \cup
      {<<n, FALSE>> : n \in consistent_stack_names \ {d[1] : d \in conds_of(sel)}}

\* C9 as stated: every configuration returned is consistent and assigns
\* every condition name of an #if/#ifdef of the (balanced) source.
C9_CompleteOverSourceNames ==
  (pc = "done" /\ condition_stack = <<>>) =>
    \A c \in configurations : Consistent(c) /\ names_of(c) = if_names(src)

\* C9 amended: every configuration returned is consistent, assigns exactly
\* the names of the internally consistent stacks recorded at non-directive
\* lines, and is the Conditions of some recorded stacks with every other
\* such name False.
C9_CompleteAndConsistent ==
  pc = "done" =>
    \A c \in configurations :
      /\ Consistent(c)
      /\ names_of(c) = consistent_stack_names
      /\ DefaultsToFalse(c)

\* A configuration holds a name False that none of the recorded stacks it
\* is made of holds: the default acted.
C9_Witness ==
  /\ pc = "done"
  /\ \E c \in configurations : \E n \in names_of(c) :
       /\ <<n, FALSE>> \in Range(c)
       /\ \A s \in conditions : <<n, FALSE>> \notin Range(s)

\* C10 as stated: two different configurations returned differ in the
\* polarity of some condition name.
C10_NoTwoEqualAssignments ==
  pc = "done" =>
    \A c1, c2 \in configurations : c1 # c2 => Range(c1) # Range(c2)

-----------------------------------------------------------------------------
(* Properties of preprocess_filename *)

\* Condition c of a directive stack holds under configuration cfg.
holds_under(cfg, c) == (<<c[1], TRUE>> \in Range(cfg)) = c[2]

\* C1 as stated: under a configuration of get_configurations, every line
\* emitted has all its enclosing #if/#ifdef/#else branches true under the
\* configuration (stated for the lines whose enclosing branches do not
\* contradict one another).
C1_EmittedOnlyIfAllEnclosingTrue ==
  (accepted(src) /\
   config \in get_configurations_of(get_conditions(src).conditions)) =>
    \A i \in 1..Len(result) :
      LET st == stack_at(src, result[i].sourceline + 1)
      IN  Consistent(st) => \A j \in 1..Len(st) : holds_under(config, st[j])

-----------------------------------------------------------------------------
(* Properties of simplify_tags *)

\* A TagList is the OR of its Tags, a Tag the AND of its Conditions; the
\* empty TagList is always present.
satisfied(list, assignment) ==
  \/ list = <<>>
  \/ \E i \in 1..Len(list) : \A c \in list[i] : assignment[c[1]] = c[2]

\* The Tags of the list are configurations over the same names, as the
\* Tags that merge attaches are.
all_configurations(list) ==
  \A i, j \in 1..Len(list) :
    list[i] # {} /\ {c[1] : c \in list[i]} = {c[1] : c \in list[j]}

\* C3 as stated: the result of simplify_tags is satisfied by exactly the
\* complete configurations that satisfy the TagList it was called with
\* (stated for the TagLists made of configurations over the same names).
C3_SimplifyPreservesMeaning ==
  (pc = "done" /\ all_configurations(tags_in)) =>
    \A assignment \in [TagNames -> BOOLEAN] :
      satisfied(tags, assignment) = satisfied(tags_in, assignment)

-----------------------------------------------------------------------------
(* Properties of produce_preprocessor *)

\* What was yielded while merged line i was handled.
yielded_for(i) ==
  LET at == {j \in 1..Len(output) : yielded_at[j] = i}
      RECURSIVE pick(_)
      pick(j) == IF j > Len(output) THEN <<>>
                 ELSE (IF j \in at THEN <<output[j]>> ELSE <<>>) \o pick(j + 1)
  IN  pick(1)

single(c, p) == << {<<c, p>>} >>

\* The directives yielded, in order.
directives ==
  LET RECURSIVE pick(_)
      pick(j) == IF j > Len(output) THEN <<>>
                 ELSE (IF output[j].k # "line" THEN <<output[j].k>> ELSE <<>>)
                      \o pick(j + 1)
  IN  pick(1)

\* merged lines i-1 and i go from [{(c,p)}] to [{(c,not p)}].
complement_at(i) ==
  \E c \in {"A", "B"}, p \in BOOLEAN :
    merged[i - 1].tags = single(c, p) /\ merged[i].tags = single(c, ~p)

\* Every merged line is tagged [{(A,True)}] or [{(A,False)}].
alternating_on_A ==
  /\ merged # <<>>
  /\ \A i \in 1..Len(merged) :
       merged[i].tags \in {single("A", TRUE), single("A", FALSE)}

changes == {i \in 2..Len(merged) : merged[i].tags # merged[i - 1].tags}

\* C5: where consecutive merged lines go from [{(C,p)}] to [{(C,not p)}]
\* exactly one "#else" (naming the block it closes) is yielded between
\* them, and no "#endif" is ever directly followed by the "#if" of the
\* complement; merged lines that are all tagged {(A,True)} or {(A,False)}
\* come out as one "#if", one "#else" per change of polarity and one
\* final "#endif", the lines in between in their order.
C5_ElseCollapse ==
  /\ \A i \in 2..linecount :
       complement_at(i) =>
         yielded_for(i) =
           << [k |-> "else",
               text |-> "#else /* (" \o
                        format_cond(CHOOSE c \in merged[i - 1].tags[1] : TRUE)
                        \o ") */"],
              [k |-> "line", text |-> merged[i].text] >>
  /\ (pc = "done" /\ alternating_on_A) =>
       /\ directives =
            <<"if">> \o [i \in 1..Cardinality(changes) |-> "else"]
                     \o <<"endif">>
       /\ output[1] =
            [k |-> "if",
             text |-> "#if (" \o
                      format_cond(CHOOSE c \in merged[1].tags[1] : TRUE)
                      \o ")"]
       /\ output[Len(output)].k = "endif"
       /\ Len(output) = Len(merged) + Cardinality(changes) + 2

\* Two lines of opposite polarity were handled and the "#else" is out.
C5_Witness ==
  /\ pc = "done"
  /\ alternating_on_A
  /\ changes # {}
  /\ \E j \in 1..Len(output) : output[j].k = "else"

-----------------------------------------------------------------------------
(* Properties of expand_to_match *)

\* C8: after every iteration of expand_to_match, and when it returns, all
\* aligned streams have one length, and at every index two streams hold
\* lines of the same source line number unless one holds a filler.
C8_AlignedStreams ==
  \A k1, k2 \in DOMAIN cfg2newlines :
    /\ Len(cfg2newlines[k1]) = Len(cfg2newlines[k2])
    /\ \A i \in 1..Len(cfg2newlines[k1]) :
         \/ is_filler(cfg2newlines[k1][i])
         \/ is_filler(cfg2newlines[k2][i])
         \/ cfg2newlines[k1][i].sourceline = cfg2newlines[k2][i].sourceline

\* expand_to_match returned streams in which some index holds a filler
\* beside a line and some index holds lines of two streams.
C8_Witness ==
  /\ pc = "done"
  /\ \E k1, k2 \in DOMAIN cfg2newlines :
       /\ k1 # k2
       /\ \E i \in 1..Len(cfg2newlines[k1]) :
            is_filler(cfg2newlines[k1][i]) /\ ~is_filler(cfg2newlines[k2][i])
       /\ \E i \in 1..Len(cfg2newlines[k1]) :
            ~is_filler(cfg2newlines[k1][i]) /\ ~is_filler(cfg2newlines[k2][i])

-----------------------------------------------------------------------------
(* Properties of process_filename *)

\* The file '#ifdef F / lineA / #else / lineB / #endif'.
IfdefElseFile ==
  <<IfdefLine("F"), TextLine("lineA"), ElseLine, TextLine("lineB"), EndifLine>>

\* The entries of pattern occur in s, in that order.
RECURSIVE in_order(_, _)
in_order(pattern, s) ==
  IF pattern = <<>> THEN TRUE
  ELSE IF s = <<>> THEN FALSE
  ELSE IF Head(s) = Head(pattern) THEN in_order(Tail(pattern), Tail(s))
  ELSE in_order(pattern, Tail(s))

\* The lines yielded: a directive by its kind, any other line by its text.
marks == [i \in 1..Len(output) |->
            IF output[i].k = "line" THEN output[i].text ELSE output[i].k]

\* C2 as stated: for the file '#ifdef F / lineA / #else / lineB / #endif' the
\* output of the whole pipeline holds, in this order, an #if line, outA, an
\* #else line, outB and an #endif line.
C2_IfElseEndif ==
  (pc = "done" /\ src = IfdefElseFile) =>
    in_order(<<"if", "outA", "else", "outB", "endif">>, marks)

\* C2, amended: for that file the output written holds, in this order,
\* '#if (defined(F))', outA and the #endif of that block, then
\* '#if (!defined(F))', outB and the #endif of that block; it holds no #else
\* line, the two blocks being kept apart by lines common to both variants.
C2_TwoIfBlocks ==
  (pc = "done" /\ src = IfdefElseFile) =>
    /\ output_file = texts(output)
    /\ in_order(<<"#if (defined(F))", "outA", "#endif /* (defined(F)) */",
                  "#if (!defined(F))", "outB", "#endif /* (!defined(F)) */">>,
                output_file)
    /\ \A i \in 1..Len(output) : output[i].k # "else"

\* The pipeline has run to its end on the file of C2, both variants compiled.
C2_Witness ==
  /\ pc = "done"
  /\ src = IfdefElseFile
  /\ Len(compiled) = 2
  /\ \E i \in 1..Len(output_file) : output_file[i] = "outA"
  /\ \E i \in 1..Len(output_file) : output_file[i] = "outB"

\* C6: when process_filename aborts, neither the merged output path nor the
\* sibling .pyx path has been modified since the start of the run.
C6_NoDestinationModifiedOnAbort ==
  pc = "aborted" => (pyx_file = Previous /\ output_file = Previous)

\* C7: in every step the cache keeps each entry it has; a run of the
\* compiler is on a digest it was not run on before; and a call of
\* run_cython whose digest was compiled before leaves the compiler alone
\* and hands on the cached output.
C7_CompiledOncePerDigest ==
  [][/\ \A d \in DOMAIN cache : d \in DOMAIN cache' /\ cache'[d] = cache[d]
     /\ compiled' # compiled =>
          /\ Len(compiled') = Len(compiled) + 1
          /\ SubSeq(compiled', 1, Len(compiled)) = compiled
          /\ compiled'[Len(compiled')] \notin Range(compiled)
     /\ (pc = "run_cython" /\ md5(value) \in Range(compiled)) =>
          /\ compiled' = compiled
          /\ cache' = cache
          /\ sources' = Append(sources, attach_tags(cache[md5(value)], config))
    ]_vars

\* Two configurations gave one text: the second was served from the cache.
C7_Witness ==
  /\ pc = "done"
  /\ Len(sources) > Len(compiled)
  /\ \E i, j \in 1..Len(sources) : i # j /\ sources[i] # sources[j]

\* C11 as stated: for every internally consistent stack recorded by
\* get_conditions, get_configurations returns a configuration that holds
\* every condition of the stack; and it returns at least one configuration.
C11_CoversEveryConsistentStack ==
  pc = "done" =>
    /\ \A st \in {t \in conditions : Consistent(t)} :
         \E c \in configurations : Range(st) \subseteq Range(c)
    /\ configurations # {}

-----------------------------------------------------------------------------
(* The macro expansion.                                                    *)

\* The match m of code stands at a token boundary: no word character comes
\* right before the macro name, and none right after it.
at_token_boundary(code, m) ==
  LET first == m.start + Len(m.group1)
      after == first + Len(m.token)
  IN  /\ first = 1 \/ code[first - 1] \notin WordChars
      /\ after > Len(code) \/ code[after] \notin WordChars

\* C12 as stated: every substitution of expand_definitions replaces a macro
\* name that stands at a token boundary; a name that a word character
\* follows is not expanded.
C12_ExpandedOnlyAtTokenBoundary ==
  [][expand_definitions_step =>
       at_token_boundary(newcode,
                         re_macro_search(newcode, sorted_keys(DOMAIN macros)))]_vars

\* The body from position i on with every parameter name that stands alone
\* replaced by the argument of that parameter, all at once.
RECURSIVE substituted(_, _, _, _)
substituted(body, i, params, arguments) ==
  IF i > Len(body) THEN <<>>
  ELSE LET here == {k \in 1..Len(params) :
                      /\ text_at(body, i, params[k])
                      /\ i = 1 \/ body[i - 1] \notin WordChars
                      /\ i + Len(params[k]) > Len(body) \/
                         body[i + Len(params[k])] \notin WordChars}
       IN  IF here = {} THEN
             <<body[i]>> \o substituted(body, i + 1, params, arguments)
           ELSE LET k == CHOOSE k \in here : TRUE
                IN  arguments[k] \o
                    substituted(body, i + Len(params[k]), params, arguments)

\* The next match of expand_definitions invokes a macro defined with
\* parameters.
parameterized_invocation ==
  /\ pc = "expand_definitions"
  /\ DOMAIN macros # {}
  /\ substitutions < MaxSubstitutions
  /\ re_macro_matches(newcode, sorted_keys(DOMAIN macros)) # {}
  /\ macros[re_macro_search(newcode, sorted_keys(DOMAIN macros)).token].params
       # <<>>

\* The invocation m comes with a parenthesized list of exactly n arguments.
with_n_arguments(m, n) ==
  /\ m.group3 # <<>>
  /\ Head(m.group3) = "(" /\ m.group3[Len(m.group3)] = ")"
  /\ Len(split_comma(SubSeq(m.group3, 2, Len(m.group3) - 1))) = n

\* C13 as stated: an invocation of a macro of n >= 1 parameters with a
\* parenthesized list of exactly n arguments is replaced by the body with
\* each parameter replaced by its argument; every other invocation of it
\* fails with the arity error.
C13_ParameterizedInvocation ==
  [][parameterized_invocation =>
       LET m == re_macro_search(newcode, sorted_keys(DOMAIN macros))
           definition == macros[m.token]
       IN  IF with_n_arguments(m, Len(definition.params)) THEN
             /\ pc' = pc
             /\ newcode' =
                  SubSeq(newcode, 1, m.start - 1) \o
                  (IF m.group1 = <<"#", "#">> THEN <<>> ELSE m.group1) \o
                  substituted(join_lines(definition.lines), 1,
                              definition.params,
                              parse_parameter_values(m.group3)) \o
                  SubSeq(newcode, m.end + 1, Len(newcode))
           ELSE pc' = InvalidNumberOfArguments /\ newcode' = newcode]_vars

\* The second half of C13 alone: an invocation without a parenthesized list
\* of exactly n arguments fails with the arity error.
C13_ArityError ==
  [][parameterized_invocation =>
       LET m == re_macro_search(newcode, sorted_keys(DOMAIN macros))
       IN  ~with_n_arguments(m, Len(macros[m.token].params)) =>
             pc' = InvalidNumberOfArguments /\ newcode' = newcode]_vars

\* A macro invocation remains in the text of expand_definitions.
invocation_remains ==
  DOMAIN macros # {} /\
  re_macro_matches(newcode, sorted_keys(DOMAIN macros)) # {}

\* How expand_definitions ended, for each way it can end.
returned == pc = "return" /\ ~invocation_remains

infinite_recursion ==
  /\ pc = InfiniteRecursion
  /\ invocation_remains
  /\ LET s == subn(newcode, macros, expand_arguments)
     IN  \/ s.error = "" /\ s.count > 0 /\ s.code = newcode
         \/ s.error = InfiniteRecursion

too_many_substitutions ==
  /\ pc = TooManySubstitutions
  /\ \/ substitutions = MaxSubstitutions
     \/ /\ invocation_remains
        /\ subn(newcode, macros, expand_arguments).error = TooManySubstitutions

arity_error ==
  /\ pc = InvalidNumberOfArguments
  /\ invocation_remains
  /\ LET m == re_macro_search(newcode, sorted_keys(DOMAIN macros))
     IN  /\ macros[m.token].params # <<>>
         /\ ~with_n_arguments(m, Len(macros[m.token].params))

\* C14 as stated: expand_definitions ends in one of three ways: it returns
\* a text without macro invocation, or fails with the infinite-recursion
\* error after a replacement that left the text as it was, or fails with
\* the too-many-substitutions error at the iteration cap.
C14_ThreeOutcomes ==
  pc # "expand_definitions" =>
    returned \/ infinite_recursion \/ too_many_substitutions

\* C14, amended: expand_definitions always ends, every iteration that
\* does not end it counts one more substitution up to the cap, and it ends
\* in exactly one of four ways: the three of the claim, or the arity error
\* of an invocation of a parameterized macro without a list of as many
\* arguments; the infinite-recursion error is also that of the expansion of
\* the arguments of such an invocation.
C14_TerminatesInFourOutcomes ==
  /\ <>(pc # "expand_definitions")
  /\ [](pc # "expand_definitions" =>
          returned \/ infinite_recursion \/ too_many_substitutions \/
          arity_error)
  /\ [](substitutions <= MaxSubstitutions)
  /\ [][pc' = "expand_definitions" =>
          substitutions' = substitutions + 1]_vars

\* Nested macros are expanded to the end: with A=1 and B=A+1 the text B has
\* become 1+1 after two substitutions.
C14_Witness ==
  /\ pc = "return"
  /\ macros = M2
  /\ substitutions = 2
  /\ newcode = <<"1", "+", "1">>

-----------------------------------------------------------------------------
(* The directive stack of get_conditions.                                  *)

\* C15 as stated: reading one more line, get_conditions fails if and only
\* if the line is an #else or an #endif and the stack is empty, and then by
\* the exit of a SyntaxError; an #else on a non-empty stack inverts the
\* polarity of the top entry and keeps the depth, an #endif on a non-empty
\* stack pops one entry.
C15_FailsOnlyOnEmptyStack ==
  [][(pc = "get_conditions" /\ linecount' = linecount + 1) =>
       LET line == src'[Len(src')]
           depth == Len(condition_stack)
           closes == line.k \in {"else", "endif"}
       IN  /\ pc' # "get_conditions" <=> (closes /\ depth = 0)
           /\ pc' # "get_conditions" => pc' = "exit"
           /\ (line.k = "else" /\ depth > 0) =>
                condition_stack' =
                  [condition_stack EXCEPT
                     ![depth] = <<condition_stack[depth][1],
                                  ~condition_stack[depth][2]>>]
           /\ (line.k = "endif" /\ depth > 0) =>
                condition_stack' = SubSeq(condition_stack, 1, depth - 1)]_vars

\* What of C15 holds: a SyntaxError exit happens exactly at an #else or an
\* #endif on the empty stack, an #endif on a non-empty stack pops one entry,
\* and an #else on a stack whose top entry is still true makes it false.
C15_ExitOnlyOnEmptyStack ==
  [][(pc = "get_conditions" /\ linecount' = linecount + 1) =>
       LET line == src'[Len(src')]
           depth == Len(condition_stack)
       IN  /\ pc' = "exit" <=> (line.k \in {"else", "endif"} /\ depth = 0)
           /\ (line.k = "endif" /\ depth > 0) =>
                /\ pc' = "get_conditions"
                /\ condition_stack' = SubSeq(condition_stack, 1, depth - 1)
           /\ (line.k = "else" /\ depth > 0 /\ condition_stack[depth][2]) =>
                /\ pc' = "get_conditions"
                /\ condition_stack' =
                     [condition_stack EXCEPT
                        ![depth] = <<condition_stack[depth][1], FALSE>>]]_vars

-----------------------------------------------------------------------------
(* The reference mode of preprocess_filename.                              *)

\* After line i of s a #define is still continuing.
RECURSIVE continuing(_, _)
continuing(s, i) ==
  IF i = 0 THEN FALSE
  ELSE IF continuing(s, i - 1) \/ s[i].k = "define" THEN
    rstrip(chars_of(s[i]))[Len(rstrip(chars_of(s[i])))] = "\\"
  ELSE FALSE

\* Line i of s is a #define or a continuation line of one.
defines(s, i) == continuing(s, i - 1) \/ s[i].k = "define"

\* The text with a final newline.
with_newline(text) ==
  IF text[Len(text)] = "\n" THEN text ELSE text \o <<"\n">>

\* The lines of result come in the order of their source lines.
in_source_order ==
  \A i, j \in 1..Len(result) :
    i < j => result[i].sourceline <= result[j].sourceline

\* Line i of the source is emitted.
emitted(i) == \E j \in 1..Len(result) : result[j].sourceline = i - 1

\* C16 as stated: read in reference mode, the including stack stays empty,
\* every conditional directive is emitted as it is, every line that is not
\* a #define or a continuation line of one is emitted, in source order, and
\* a source without directive and without #define is emitted as it is, up
\* to the final newline.
C16_ReferenceModeDropsNothing ==
  (config = None /\ pc \in {"preprocess", "done"}) =>
    /\ including_section = <<>>
    /\ in_source_order
    /\ \A i \in 1..Len(src) :
         ~defines(src, i) =>
           /\ emitted(i)
           /\ match_condition(src[i]) =>
                \E j \in 1..Len(result) :
                  result[j] = Str_sourceline(chars_of(src[i]), i - 1)
    /\ (\A i \in 1..Len(src) : src[i].k = "text" /\ Head(src[i].p) # "#") =>
         result = [i \in 1..Len(src) |->
                     Str_sourceline(with_newline(src[i].p), i - 1)]

\* What of C16 holds: the same, for the lines that end with a newline.
C16_LinesWithNewlineEmitted ==
  (config = None /\ pc \in {"preprocess", "done"}) =>
    /\ including_section = <<>>
    /\ in_source_order
    /\ \A i \in 1..Len(src) :
         (~defines(src, i) /\ ends_with_newline(src[i])) =>
           /\ emitted(i)
           /\ match_condition(src[i]) =>
                \E j \in 1..Len(result) :
                  result[j] = Str_sourceline(chars_of(src[i]), i - 1)
    /\ (\A i \in 1..Len(src) : src[i].k = "text" /\ Head(src[i].p) # "#") =>
         result = [i \in 1..Len(src) |->
                     Str_sourceline(with_newline(src[i].p), i - 1)]

-----------------------------------------------------------------------------
(* simplify_tags on complete configurations.                               *)

\* The list holds each of the 2^n complete configurations over the first n
\* names once.
all_configurations_of(list, n) ==
  /\ Len(list) = Len(complete_configurations(n))
  /\ Range(list) = Range(complete_configurations(n))

\* The Tags s and t differ only in the polarity of the condition c of s.
differ_only_in(s, t, c) ==
  c \in s /\ reverted(c) \in t /\ s \ {c} = t \ {reverted(c)}

\* C17 as stated: simplify_tags turns the list of all complete
\* configurations over n names, in any order, into the empty TagList, and
\* two Tags that differ only in the polarity of one condition into the
\* single Tag of their common part (into the empty TagList when they have
\* nothing in common, as the first half says for n = 1).
C17_AllConfigurationsSimplifyToNothing ==
  pc = "done" =>
    /\ \A n \in 1..Len(AllNames) :
         all_configurations_of(tags_in, n) => tags = <<>>
    /\ Len(tags_in) = 2 =>
         \A c \in tags_in[1] :
           differ_only_in(tags_in[1], tags_in[2], c) =>
             tags = IF tags_in[1] = {c} THEN <<>> ELSE <<tags_in[1] \ {c}>>

\* What of C17 holds: the same for the complete configurations over one
\* name or two.
C17_UpToTwoNames ==
  pc = "done" =>
    /\ \A n \in 1..2 : all_configurations_of(tags_in, n) => tags = <<>>
    /\ Len(tags_in) = 2 =>
         \A c \in tags_in[1] :
           differ_only_in(tags_in[1], tags_in[2], c) =>
             tags = IF tags_in[1] = {c} THEN <<>> ELSE <<tags_in[1] \ {c}>>

-----------------------------------------------------------------------------
(* Properties of merge *)

\* The TagList holds under the configuration: it is empty, or one of its
\* Tags has all its conditions in the configuration.
holds_in(taglist, c) ==
  \/ taglist = <<>>
  \/ \E i \in 1..Len(taglist) : taglist[i] \subseteq Range(c)

\* The texts of the lines of the merged list that appear under c, in order.
variant(lines, c) ==
  texts(SelectSeq(lines, LAMBDA l : holds_in(l.tags, c)))

\* C18: when merge returns, for every configuration c of the sources the
\* lines of the result whose TagList holds under c (the empty TagList holds
\* always) are, in order, exactly the lines of the source tagged with c.
C18_MergePreservesEveryVariant ==
  pc = "done" =>
    \A k \in 1..Len(sources) :
      variant(merged, sorted_tuples(configurations)[k]) = texts(sources[k])

C18_Witness ==
  /\ pc = "done"
  /\ Len(sources) = 4
  /\ \E j, k \in 1..4 :
       /\ texts(sources[j]) = <<"outA", "outB">>
       /\ texts(sources[k]) = <<"outB", "outA">>
  /\ \E i \in 1..Len(merged) : merged[i].tags = <<>>
  /\ \E i \in 1..Len(merged) :
       Len(merged[i].tags) = 1 /\ Cardinality(merged[i].tags[1]) = 1

-----------------------------------------------------------------------------
(* The including stack against the directive stack *)

\* The including stack is the directive stack of get_conditions after the
\* same lines, each condition replaced by its truth under the configuration.
mirrors(including, stack) ==
  /\ Len(including) = Len(stack)
  /\ \A j \in 1..Len(stack) : including[j] = holds_under(config, stack[j])

\* A #define line among the first i lines is continued on the next line.
continued_define(s, i) == \E j \in 1..i : s[j].k = "define" /\ s[j].more

\* C19 as stated: for a source get_conditions accepts and any configuration,
\* after each physical line preprocess_filename read without exiting, the
\* including stack has the depth of the condition stack of get_conditions
\* after that line and each entry is the truth under the configuration of
\* the condition at the same depth.
C19_IncludingMirrorsDirectiveStack ==
  pc \in {"preprocess", "done"} =>
    mirrors(including_section, stack_at(src, linecount))

\* The same, for the lines read before any #define line that is continued.
C19_MirrorsWithoutContinuation ==
  (pc \in {"preprocess", "done"} /\ ~continued_define(src, linecount)) =>
    mirrors(including_section, stack_at(src, linecount))

-----------------------------------------------------------------------------
(* Termination of simplify_tags *)

\* The two Tags differ only in the polarity of exactly one condition.
one_polarity_apart(t, u) ==
  \E c \in t : t \ u = {c} /\ u \ t = {reverted(c)}

\* No rule of simplify_tags applies to the list.
fixpoint(list) ==
  /\ \A i \in 1..Len(list) : list[i] # {}
  /\ \A i, j \in 1..Len(list) :
       i < j => list[i] # list[j] /\ ~one_polarity_apart(list[i], list[j])

\* C20: simplify_tags returns on every TagList, every rewrite on the way
\* makes the list one Tag shorter, and the list returned holds no empty Tag,
\* no two identical Tags and no two Tags that differ only in the polarity of
\* exactly one condition.
C20_TerminatesAtFixpoint ==
  /\ <>(pc = "done")
  /\ [][pc' = "simplify_tags" => Len(tags') = Len(tags) - 1]_vars
  /\ [](pc = "done" => fixpoint(tags))

C20_Witness ==
  /\ pc = "done"
  /\ Len(tags_in) = MaxTags
  /\ Len(tags) = 2
  /\ \E i \in 1..Len(tags_in) : tags_in[i] = {}
  /\ \E i, j \in 1..Len(tags_in) : i < j /\ tags_in[i] = tags_in[j]
  /\ \E i, j \in 1..Len(tags_in) :
       one_polarity_apart(tags_in[i], tags_in[j])

-----------------------------------------------------------------------------
(* The directive stream of produce_preprocessor *)

\* The blocks open after the first i lines yielded: #if lines less #endif
\* lines.
RECURSIVE open_blocks(_, _)
open_blocks(out, i) ==
  IF i = 0 THEN 0
  ELSE open_blocks(out, i - 1) +
       (IF out[i].k = "if" THEN 1 ELSE IF out[i].k = "endif" THEN 0 - 1 ELSE 0)

\* The #else lines among the first i lines yielded that follow the last #if.
else_lines_of_block(out, i) ==
  {j \in 1..i : out[j].k = "else" /\ \A h \in (j + 1)..i : out[h].k # "if"}

\* Every #else and #endif belongs to an open #if, blocks are never nested and
\* no block is open when produce_preprocessor is exhausted.
blocks_well_nested ==
  /\ \A i \in 1..Len(output) :
       /\ output[i].k \in {"else", "endif"} => open_blocks(output, i - 1) = 1
       /\ output[i].k = "if" => open_blocks(output, i - 1) = 0
  /\ pc = "done" => open_blocks(output, Len(output)) = 0

\* C21 as stated: the directive stream yielded is well formed: every #else
\* and #endif belongs to an open #if, a block holds at most one #else, blocks
\* are never nested, and no block is open at the end of the stream.
C21_WellFormedDirectiveStream ==
  /\ blocks_well_nested
  /\ \A i \in 1..Len(output) :
       Cardinality(else_lines_of_block(output, i)) <= 1

\* The stream is well formed but for the number of #else lines of a block.
C21_WellNestedBlocks == blocks_well_nested

-----------------------------------------------------------------------------
(* The lines of produce_preprocessor and the blocks around them *)

\* The TagLists an "#if" text of the output can stand for.
read_if(text) ==
  {t \in UNION {[1..n -> ConsistentTags \ {{}}] : n \in 1..2} :
     yield_if(t).text = text}

\* The last directive yielded before position j, 0 when there is none.
last_directive(out, j) ==
  IF \E h \in 1..(j - 1) : out[h].k # "line"
  THEN CHOOSE h \in 1..(j - 1) :
         out[h].k # "line" /\ \A g \in (h + 1)..(j - 1) : out[g].k = "line"
  ELSE 0

\* The "#if" that opened the block position j lies in.
last_if(out, j) ==
  CHOOSE h \in 1..(j - 1) :
    out[h].k = "if" /\ \A g \in (h + 1)..(j - 1) : out[g].k # "if"

outside_any_block(out, j) ==
  last_directive(out, j) = 0 \/ out[last_directive(out, j)].k = "endif"

\* The condition in effect at position j of a block is equivalent to the
\* TagList: the expression of the "#if", or its negation after an "#else".
in_block_equivalent_to(out, j, taglist) ==
  /\ ~outside_any_block(out, j)
  /\ read_if(out[last_if(out, j)].text) # {}
  /\ \A t \in read_if(out[last_if(out, j)].text) :
       \A assignment \in [TagNames -> BOOLEAN] :
         satisfied(taglist, assignment) =
           IF out[last_directive(out, j)].k = "else"
           THEN ~satisfied(t, assignment)
           ELSE satisfied(t, assignment)

\* The positions of the output that hold the lines of the input.
line_positions == {j \in 1..Len(output) : output[j].k = "line"}

\* Every line read so far was yielded once, in the order of the input.
each_line_once_in_order ==
  /\ \A i \in 1..linecount :
       \E j \in line_positions :
         /\ yielded_at[j] = i
         /\ output[j].text = merged[i].text
         /\ \A h \in line_positions : yielded_at[h] = i => h = j
  /\ \A j, h \in line_positions : j < h => yielded_at[j] < yielded_at[h]

\* C22 as stated: every input line is in the output once and in input order,
\* every line with a non-empty TagList lies in a block whose condition in
\* effect (the #if expression, or its negation after an #else) is equivalent
\* to its TagList, and every line with an empty TagList lies outside any
\* block.
C22_LinesUnderTheirConditions ==
  /\ each_line_once_in_order
  /\ \A j \in line_positions :
       IF merged[yielded_at[j]].tags = <<>>
       THEN outside_any_block(output, j)
       ELSE in_block_equivalent_to(output, j, merged[yielded_at[j]].tags)

\* The same for the lines of blocks that hold at most one "#else" so far.
C22_WithinBlocksOfOneElse ==
  /\ each_line_once_in_order
  /\ \A j \in line_positions :
       Cardinality(else_lines_of_block(output, j)) <= 1 =>
         IF merged[yielded_at[j]].tags = <<>>
         THEN outside_any_block(output, j)
         ELSE in_block_equivalent_to(output, j, merged[yielded_at[j]].tags)

-----------------------------------------------------------------------------
(* Preprocessing before every side effect *)

\* A file was written, the compiler was run, or outputs were collected or
\* merged.
side_effect ==
  \/ pyx_file # Previous
  \/ output_file # Previous
  \/ compiled # <<>>
  \/ sources # <<>>
  \/ merged # <<>>

\* get_configurations returns for the file, and so does preprocess_filename
\* under each of its configurations and in reference mode.
every_pass_completes(s) ==
  /\ accepted(s)
  /\ \A k \in get_configurations_of(get_conditions(s).conditions) \cup {None} :
       pp_define_run(s, Len(s), k).error = ""

\* C23: no file is written, no variant compiled and nothing collected or
\* merged before the passes of all configurations and of the reference mode
\* have completed; a run that ends on an error of a pass has written no file
\* and compiled or merged no variant.
C23_PreprocessingPrecedesSideEffects ==
  /\ [](side_effect =>
         /\ every_pass_completes(src)
         /\ pc \notin {"process_filename", "preprocess_filename"})
  /\ [][(side_effect' /\ ~side_effect) =>
          pc = "atomic_write" /\ DOMAIN preprocessed = configurations]_vars

\* A pass failed after another pass had completed, and the run is over.
C23_Witness ==
  /\ pc = "aborted"
  /\ accepted(src)
  /\ DOMAIN preprocessed # {}
  /\ ~every_pass_completes(src)
  /\ ~side_effect

-----------------------------------------------------------------------------
(* The reference pass and the merge set *)

\* The stream without the fillers expand_to_match added.
without_fillers(lines) == SelectSeq(lines, LAMBDA l : ~is_filler(l))

\* The lines of the source are all tagged with the one configuration.
tagged_with(source, c) ==
  \A i \in 1..Len(source) : source[i].tags = <<Range(c)>>

\* The text merge and produce_preprocessor give for the outputs collected.
merged_output == texts(produce_preprocessor(merge(sources)))

\* C24: the reference stream is kept apart from the merge set: the compiler
\* is run only on the text of the variant of a configuration, written to the
\* .pyx path before, and every output collected for merge is tagged with its
\* configuration, never with None; the .pyx path is written last, after the
\* merged output, and in a run that succeeds it ends holding the banner and
\* the reference stream.
C24_ReferenceKeptApart ==
  /\ [](/\ None \notin configurations
        /\ Len(sources) <= Cardinality(configurations)
        /\ \A i \in 1..Len(sources) :
             tagged_with(sources[i], sorted_tuples(configurations)[i]))
  /\ [][compiled' # compiled =>
          /\ config \in configurations
          /\ pyx_file = <<py_banner>> \o texts(preprocessed[config])
          /\ compiled' = Append(compiled, md5(texts(preprocessed[config])))
       ]_vars
  /\ [][pc = "save_pyx" =>
          /\ output_file = merged_output
          /\ output_file' = output_file
          /\ pc' = "done"]_vars
  /\ [](pc = "done" =>
          /\ pyx_file = <<py_banner>> \o texts(reference_pyx)
          /\ without_fillers(reference_pyx) =
               lines_of(pp_define_run(src, Len(src), None).result)
          /\ output_file = merged_output)

\* Two variants were compiled, neither has the text of the reference stream,
\* and the run succeeded.
C24_Witness ==
  /\ pc = "done"
  /\ Len(compiled) = 2
  /\ \A k \in configurations :
       texts(preprocessed[k]) # texts(reference_pyx)

-----------------------------------------------------------------------------
(* expand_to_match only inserts fillers *)

\* The lines of stream k in their order: those moved to the aligned stream,
\* its fillers aside, then those still to move.
lines_of_stream(aligned, items, k) == without_fillers(aligned[k]) \o items[k]

\* C25: expand_to_match returns on every input; no iteration changes, for
\* any stream, the lines of the stream and their order, the fillers of the
\* aligned stream aside; and when it returns no line is left behind, so that
\* each aligned stream without its fillers is the stream it was given.
C25_OnlyInsertsFillers ==
  /\ <>(pc = "done")
  /\ [][\A k \in DOMAIN preprocessed :
          lines_of_stream(cfg2newlines', preprocessed', k) =
            lines_of_stream(cfg2newlines, preprocessed, k)]_vars
  /\ [](pc = "done" => \A k \in DOMAIN preprocessed : preprocessed[k] = <<>>)
  /\ [](DOMAIN cfg2newlines = DOMAIN preprocessed)

\* It returned three streams of which one was padded in the middle and
\* another holds two lines of one source line.
C25_Witness ==
  /\ pc = "done"
  /\ \E k \in DOMAIN cfg2newlines :
       \E i \in 1..(Len(cfg2newlines[k]) - 1) :
         is_filler(cfg2newlines[k][i]) /\ ~is_filler(cfg2newlines[k][i + 1])
  /\ \E k \in DOMAIN cfg2newlines :
       \E i \in 1..(Len(cfg2newlines[k]) - 1) :
         /\ ~is_filler(cfg2newlines[k][i])
         /\ ~is_filler(cfg2newlines[k][i + 1])
         /\ cfg2newlines[k][i].sourceline = cfg2newlines[k][i + 1].sourceline

====
